---------------------------- MODULE Spec2Model ----------------------------
(***************************************************************************)
(* A model of the resumable batch-fetch scripts of wiki_project:           *)
(*   wiki_birth.py / wiki_german_de.py  (fetch_data over 20-year scopes),  *)
(*   missing.py                         (fetch_data_for_ids over an ID     *)
(*                                       list),                            *)
(* with their shared helpers query_wikidata, save_pointer, load_pointer,   *)
(* save_intermediate_results and process_results.                          *)
(*                                                                         *)
(* Python values are modelled as tagged cells, Python strings as sequences *)
(* of one-character strings, so that strip(), split("|") and f-string      *)
(* formatting are computed, not assumed.                                   *)
(***************************************************************************)
EXTENDS Integers, Sequences, FiniteSets, TLC

(***************************************************************************)
(* Bounds of the model.  The scripts' constants are scaled down: the page  *)
(* size, the retry count and the flush period keep their names.            *)
(***************************************************************************)
\* wiki_birth.py:13 (500), scaled
BATCH_SIZE == 2
\* wiki_birth.py:14 (10), scaled
MAX_RETRIES == 2
\* wiki_birth.py:17 (20), scaled
SAVE_EVERY_N_BATCHES == 3
\* number of 20-year scopes, range(1525, 2026, 20) scaled
NumScopes == 3
\* most rows the server holds for one scope
MaxRecs == 5
\* longest ID list read from missing_persons.csv
MaxIds == 3
\* most rows the server returns for one Wikidata ID
MaxRows == 2
\* longest string handed to save_pointer in the checkpoint-store runs
MaxStrLen == 3
\* most rows of a raw batch in the normalizer runs
MaxNormRows == 1
\* most times the script is started in the runs with a kill
MaxRuns == 2
\* birthlabel.py:17 (MAX_RETRIES = 5), scaled
LABEL_MAX_RETRIES == 2
\* birthlabel.py:19 (BATCH_SIZE = 50), scaled
LABEL_BATCH_SIZE == 2
\* most rows of final_dataset.csv in the birthlabel.py runs
MaxDataRows == 3

\* wiki_birth.py:15 / missing.py:15
RETRY_DELAY == 20

\* birthlabel.py:18
REQUEST_DELAY == 1

(***************************************************************************)
(* Python strings: sequences of characters, ordered by code point.         *)
(***************************************************************************)
Alphabet ==
    <<" ", "/", "0", "1", "2", "3", "4", "5", "6", "7", "8", "9",
      "N", "P", "Q", "a", "e", "n", "o", "x", "|">>

Digits == <<"0", "1", "2", "3", "4", "5", "6", "7", "8", "9">>

Whitespace == {" "}

Rank(c) == CHOOSE i \in 1..Len(Alphabet) : Alphabet[i] = c

Digit(n) == Digits[n + 1]


IsDigit(c) == \E i \in 1..Len(Digits) : Digits[i] = c

RECURSIVE StrLess(_, _)
\* a < b on Python / SPARQL strings (lexicographic by code point)
StrLess(a, b) ==
    IF b = <<>> THEN FALSE
    ELSE IF a = <<>> THEN TRUE
    ELSE IF a[1] # b[1] THEN Rank(a[1]) < Rank(b[1])
    ELSE StrLess(Tail(a), Tail(b))

RECURSIVE LStrip(_)
LStrip(s) == IF s # <<>> /\ s[1] \in Whitespace THEN LStrip(Tail(s)) ELSE s

RECURSIVE RStrip(_)
RStrip(s) ==
    IF s # <<>> /\ s[Len(s)] \in Whitespace
    THEN RStrip(SubSeq(s, 1, Len(s) - 1))
    ELSE s

\* str.strip()
Strip(s) == RStrip(LStrip(s))

RECURSIVE SplitAcc(_, _, _)
SplitAcc(s, d, cur) ==
    IF s = <<>> THEN <<cur>>
    ELSE IF s[1] = d THEN <<cur>> \o SplitAcc(Tail(s), d, <<>>)
    ELSE SplitAcc(Tail(s), d, Append(cur, s[1]))

\* str.split(d): the pieces between the occurrences of d
Split(s, d) == SplitAcc(s, d, <<>>)

(***************************************************************************)
(* Optional values (None or a value): the empty sequence or a singleton.   *)
(***************************************************************************)
None == <<>>

Some(v) == <<v>>

(***************************************************************************)
(* Python values held in a DataFrame cell or a local variable.             *)
(*   "str"     a string                                                    *)
(*   "None"    None                                                        *)
(*   "NaN"     float nan (a key missing in one binding of a batch)         *)
(*   "dict"    a mapping; val is <<>> when it has no "value" key, else     *)
(*             <<v>> with v the cell under "value"                         *)
(*   "missing" a key a raw binding does not have (before DataFrame)        *)
(***************************************************************************)
PyNone == [tag |-> "None", str |-> <<>>, val |-> <<>>]

PyNaN == [tag |-> "NaN", str |-> <<>>, val |-> <<>>]

PyMissing == [tag |-> "missing", str |-> <<>>, val |-> <<>>]

PyStr(s) == [tag |-> "str", str |-> s, val |-> <<>>]

PyDict(v) == [tag |-> "dict", str |-> <<>>, val |-> v]

\* the SPARQL JSON envelope {"type": ..., "value": s}
Envelope(s) == PyDict(<<PyStr(s)>>)

\* bool(x)
Truthy(x) ==
    CASE x.tag = "None" -> FALSE
      [] x.tag = "str" -> x.str # <<>>
      [] OTHER -> TRUE

\* pd.notna(x)
NotNa(x) == x.tag \notin {"None", "NaN"}

\* f"{x}" for the values a cursor field can hold
Format(x) ==
    CASE x.tag = "str" -> x.str
      [] x.tag = "None" -> <<"N", "o", "n", "e">>
      [] x.tag = "NaN" -> <<"n", "a", "n">>
      [] OTHER -> <<"x">>

(***************************************************************************)
(* DataFrames: the set of columns and the rows, each row a function from   *)
(* the column names to cells.                                              *)
(***************************************************************************)
ColNames == {"birthdate", "person", "birthplace"}

\* pd.DataFrame()
EmptyDf == [cols |-> {}, rows |-> <<>>]

\* pd.DataFrame.from_records(results): the columns are the keys present in
\* some binding; a key missing in one binding becomes NaN
FromRecords(bindings) ==
    LET cols == {c \in ColNames :
                    \E i \in 1..Len(bindings) : bindings[i][c].tag # "missing"}
    IN [cols |-> cols,
        rows |-> [i \in 1..Len(bindings) |->
                    [c \in ColNames |->
                        IF c \in cols /\ bindings[i][c].tag = "missing"
                        THEN PyNaN
                        ELSE bindings[i][c]]]]

\* df.empty
IsEmptyDf(df) == df.cols = {} \/ df.rows = <<>>

\* an unwrapping that leaves an envelope without "value" as it is
Unwrap_keep(x) ==
    IF x.tag = "dict" /\ x.val # <<>> THEN x.val[1] ELSE x

\* the lambda of process_results
Unwrap(x) ==
    IF x.tag = "dict"
    THEN IF x.val = <<>> THEN PyNone ELSE x.val[1]
    ELSE x

process_results(df) ==
    [cols |-> df.cols,
     rows |-> [i \in 1..Len(df.rows) |->
                [c \in ColNames |->
                    IF c \in df.cols THEN Unwrap(df.rows[i][c])
                    ELSE df.rows[i][c]]]]

\* pd.concat(results, ignore_index=True): the rows of the batches in order
RECURSIVE Concat(_)
Concat(batches) ==
    IF batches = <<>> THEN <<>>
    ELSE Head(batches).rows \o Concat(Tail(batches))


(***************************************************************************)
(* State.                                                                  *)
(***************************************************************************)
VARIABLES
    script,         \* which script runs: "wiki_birth", "wiki_german_de", "missing"
    db,             \* the server's rows per scope, in ORDER BY order
    pointer_file,   \* pointer.txt / id_pointer.txt: None or Some(text)
    pc,             \* where the script is
    scope,          \* index of the start_year loop (1 .. NumScopes)
    last_birthdate, \* in-memory cursor of fetch_data
    last_person,
    attempt,        \* loop variable of query_wikidata
    outcomes,       \* outcome of each attempt of the current call
    sleeps,         \* time.sleep calls of the current call
    batch_results,  \* value returned by query_wikidata: None or Some(df)
    all_results,    \* the accumulator buffer
    batch_count,
    snapshots,      \* intermediate CSV files written, in order
    final_csv,      \* the final dataset file: None or Some(rows)
    fetch_log,      \* one entry per finished call of query_wikidata
    id_list,        \* the IDs read from missing_persons.csv
    wikidata_ids,   \* the IDs left to process after the resume slice
    idx,            \* position of the for loop in wikidata_ids
    loaded,         \* value returned by the last load_pointer call
    last_saved,     \* argument of the last save_pointer call
    raw_df,         \* a raw batch handed to process_results
    once_df,        \* process_results(raw_df)
    twice_df,       \* process_results(process_results(raw_df))
    run,            \* how many times the script has been started
    lost,           \* the batches that were in the buffer of a killed process
    events,         \* the sleeps and requests of the current fetch, in order
    dataset,        \* the rows of final_dataset.csv (birthlabel.py)
    labels_csv,     \* birthplace_labels.csv: None or Some(rows)
    results_df,     \* results_df of process_all_birthplaces
    ids_to_process,
    batch_i,        \* i of the batch loop
    batch_result,   \* the dict of get_batch_labels
    missing_ids,
    loop_k,         \* position of the loop over missing_ids / over the batch
    caller,         \* who called get_single_label: "batch" or "fallback"
    label_ret,      \* value returned by get_single_label: None or Some(cell)
    failed_ids,     \* the IDs whose fallback lookup failed or raised
    merged_df,      \* result of merge_labels_to_dataset: None or Some(rows)
    io_errors,      \* the file operations that have raised in this run
    input_cols,     \* the columns of the input CSV file
    occupations,    \* the occupation column of unique_occupations.csv
    tr_calls,       \* the texts handed to the translator so far
    translated,     \* the translated_occupation column: None or Some(cells)
    tr_output,      \* translated_unique_occupations.csv: None or Some(rows)
    me,             \* which instance of the script is running (1 or 2)
    other           \* the locals of the instance that is not running

fetchVars == <<db, scope, last_birthdate, last_person>>

queryVars == <<attempt, outcomes, sleeps, events, batch_results, fetch_log>>

bufferVars == <<all_results, batch_count, snapshots, final_csv>>

idVars == <<id_list, wikidata_ids, idx>>

storeVars == <<loaded, last_saved>>

normVars == <<raw_df, once_df, twice_df>>

trVars == <<input_cols, occupations, tr_calls, translated, tr_output>>

instVars == <<me, other>>

envVars == <<io_errors, trVars, instVars>>

runVars == <<run, lost, envVars>>

labelVars == <<dataset, labels_csv, results_df, ids_to_process, batch_i,
               batch_result, missing_ids, loop_k, caller, label_ret,
               failed_ids, merged_df>>

vars == <<script, pointer_file, pc, fetchVars, queryVars, bufferVars,
          idVars, storeVars, normVars, runVars, labelVars>>

(***************************************************************************)
(* The Wikidata query service, as the query text of fetch_data uses it.    *)
(***************************************************************************)
\* a well-formed xsd:dateTime literal
IsDate(s) == s # <<>> /\ \A i \in 1..Len(s) : IsDigit(s[i])

\* a filter with the comparisons turned round: the rows below the cursor
PassesFilter_below(b, B, P) ==
    LET bd == Unwrap(b["birthdate"])
        p == Unwrap(b["person"])
    IN /\ bd.tag = "str"
       /\ IsDate(B)
       /\ \/ StrLess(bd.str, B)
          \/ bd.str = B /\ p.tag = "str" /\ StrLess(p.str, P)

\* the pagination FILTER: (?birthdate > B) || (?birthdate = B && STR(?person) > P);
\* a comparison on an unbound or ill-typed term is an error, hence false
PassesFilter(b, B, P) ==
    LET bd == Unwrap(b["birthdate"])
        p == Unwrap(b["person"])
    IN /\ bd.tag = "str"
       /\ IsDate(B)
       /\ \/ StrLess(B, bd.str)
          \/ bd.str = B /\ p.tag = "str" /\ StrLess(P, p.str)

\* the filter is part of the query only when both cursor fields are truthy
FilterOn(lb, lp) == Truthy(lb) /\ Truthy(lp)

\* the rows of scope s matching the query, in order
Matching(s, lb, lp) ==
    IF FilterOn(lb, lp)
    THEN SelectSeq(db[s], LAMBDA b : PassesFilter(b, Format(lb), Format(lp)))
    ELSE db[s]

\* LIMIT {BATCH_SIZE}
Page(s, lb, lp) ==
    LET m == Matching(s, lb, lp)
    IN SubSeq(m, 1, IF Len(m) < BATCH_SIZE THEN Len(m) ELSE BATCH_SIZE)

\* the rows the server can hold for scope s: birthdates of that scope, with
\* ties on birthdate and rows sharing (birthdate, person)
PoolRow(s, i) ==
    LET k == (i - 1) \div 3
        j == (i - 1) % 3
    IN [birthdate |-> Envelope(<<Digit(s), Digit(k)>>),
        person |-> Envelope(<<"Q", Digit(IF j = 0 THEN 1 ELSE 2)>>),
        birthplace |-> Envelope(<<"P", Digit(IF j = 2 THEN 2 ELSE 1)>>)]

ScopeRows(s, n) == [i \in 1..n |-> PoolRow(s, i)]

\* the rows the server returns for one Wikidata ID (missing.py)
IdRows(id, n) ==
    [i \in 1..n |->
        [birthdate |-> Envelope(<<"1", "0">>),
         person |-> Envelope(id),
         birthplace |-> Envelope(<<"P", Digit(i)>>)]]

(***************************************************************************)
(* Checkpoint store.                                                       *)
(***************************************************************************)
\* save_pointer: open(filename, "w"); f.write(pointer)
save_pointer(pointer) == Some(pointer)

\* load_pointer: f.read().strip() when the file exists, else None
load_pointer(file) == IF file = None THEN None ELSE Some(Strip(file[1]))

\* not last_pointer
Falsy(opt) == opt = None \/ opt[1] = <<>>

\* f"{last_birthdate}|{last_person}"
EncodePointer(lb, lp) == Format(lb) \o <<"|">> \o Format(lp)

(***************************************************************************)
(* query_wikidata: one attempt per step.                                   *)
(***************************************************************************)
\* time.sleep after failed attempt number attempt (0-based)
RECURSIVE Pow2(_)
Pow2(n) == IF n = 0 THEN 1 ELSE 2 * Pow2(n - 1)

Backoff(a) ==
    IF script = "missing" THEN RETRY_DELAY * Pow2(a) ELSE (a + 1) * 10

\* what the caller is asking for, as the log records it
CallKey == IF script = "missing" THEN wikidata_ids[idx] ELSE scope

\* the bindings a successful request can carry
Responses ==
    IF script = "missing"
    THEN {IdRows(wikidata_ids[idx], n) : n \in 0..MaxRows}
    ELSE {Page(scope, last_birthdate, last_person)}

LogEntry(kind, results) ==
    [key |-> CallKey, kind |-> kind, results |-> results, ptr |-> pointer_file]

BatchKind(n) ==
    IF n = 0 THEN "empty" ELSE IF n < BATCH_SIZE THEN "short" ELSE "full"

\* a loop that runs one attempt too many: range(max_retries + 1)
LastAttempt_extra == attempt = MAX_RETRIES

\* for attempt in range(max_retries): this attempt is the last of the loop
LastAttempt == attempt + 1 = MAX_RETRIES

\* an exhausted fetch reported as an empty batch
FailedResult_empty == Some(EmptyDf)

\* the distinguished failed result: return None
FailedResult == None

\* what a fetcher does that takes time or reaches the network
Request == [ev |-> "request", secs |-> 0]

Delay(n) == [ev |-> "delay", secs |-> n]

BackoffSleep(n) == [ev |-> "backoff", secs |-> n]

\* the request raises RequestException: log, sleep, next attempt; after the
\* last attempt the loop ends and the function returns None
QueryFail ==
    /\ pc = "page_fetch"
    /\ outcomes' = Append(outcomes, "fail")
    /\ sleeps' = Append(sleeps, Backoff(attempt))
    /\ events' = events \o <<Request, BackoffSleep(Backoff(attempt))>>
    /\ attempt' = attempt + 1
    /\ IF LastAttempt
       THEN /\ batch_results' = FailedResult
            /\ fetch_log' = Append(fetch_log, LogEntry("failed", <<>>))
            /\ pc' = "page_process"
       ELSE UNCHANGED <<batch_results, fetch_log, pc>>
    /\ UNCHANGED <<script, runVars, labelVars, pointer_file, fetchVars, bufferVars, idVars,
                   storeVars, normVars>>

\* the request succeeds: a DataFrame of the bindings, or an empty DataFrame
QueryOk ==
    /\ pc = "page_fetch"
    /\ \E results \in Responses :
        /\ batch_results' =
              Some(IF results # <<>> THEN FromRecords(results) ELSE EmptyDf)
        /\ fetch_log' =
              Append(fetch_log, LogEntry(BatchKind(Len(results)), results))
    /\ outcomes' = Append(outcomes, "ok")
    /\ events' = Append(events, Request)
    /\ pc' = "page_process"
    /\ UNCHANGED <<script, runVars, labelVars, pointer_file, fetchVars, attempt, sleeps,
                   bufferVars, idVars, storeVars, normVars>>

\* entering query_wikidata
StartQuery ==
    /\ attempt' = 0
    /\ outcomes' = <<>>
    /\ sleeps' = <<>>
    /\ events' = <<>>
    /\ batch_results' = None


(***************************************************************************)
(* fetch_data (wiki_birth.py, wiki_german_de.py).                          *)
(***************************************************************************)
\* a scope start that also sets the batch counter back to zero
ScopeInit_reset ==
    /\ pc = "scope_init"
    /\ LET last_pointer == load_pointer(pointer_file)
           parts == Split(last_pointer[1], "|")
       IN /\ loaded' = last_pointer
          /\ IF Falsy(last_pointer)
             THEN /\ last_birthdate' = PyNone
                  /\ last_person' = PyNone
                  /\ pc' = "page_fetch"
             ELSE IF Len(parts) = 2
             THEN /\ last_birthdate' = PyStr(parts[1])
                  /\ last_person' = PyStr(parts[2])
                  /\ pc' = "page_fetch"
             ELSE /\ UNCHANGED <<last_birthdate, last_person>>
                  /\ pc' = "crashed"
    /\ StartQuery
    /\ batch_count' = 0
    /\ UNCHANGED <<script, runVars, labelVars, db, pointer_file, scope,
                   fetch_log, all_results, snapshots, final_csv, idVars,
                   last_saved, normVars>>

\* last_birthdate, last_person = (None, None) if not last_pointer
\*                               else last_pointer.split("|")
\* the unpacking raises ValueError unless the split has exactly two pieces
ScopeInit ==
    /\ pc = "scope_init"
    /\ LET last_pointer == load_pointer(pointer_file)
           parts == Split(last_pointer[1], "|")
       IN /\ loaded' = last_pointer
          /\ IF Falsy(last_pointer)
             THEN /\ last_birthdate' = PyNone
                  /\ last_person' = PyNone
                  /\ pc' = "page_fetch"
             ELSE IF Len(parts) = 2
             THEN /\ last_birthdate' = PyStr(parts[1])
                  /\ last_person' = PyStr(parts[2])
                  /\ pc' = "page_fetch"
             ELSE /\ UNCHANGED <<last_birthdate, last_person>>
                  /\ pc' = "crashed"
    /\ StartQuery
    /\ UNCHANGED <<script, runVars, labelVars, db, pointer_file, scope, fetch_log, bufferVars,
                   idVars, last_saved, normVars>>

\* a break that starts the same year range again
ScopeDone_stay ==
    /\ scope' = scope
    /\ pc' = "scope_init"

\* break out of the while loop: the next start_year, or the end of the for loop
ScopeDone ==
    /\ scope' = scope + 1
    /\ pc' = IF scope < NumScopes THEN "scope_init" ELSE "final_save"

\* an exhausted fetch that only skips to the next scope
AbortRun_skip == ScopeDone

\* an exhausted fetch that leaves the loops and writes the final dataset
AbortRun_flush ==
    /\ pc' = "final_save"
    /\ UNCHANGED scope

\* "Too many failures. Exiting...": fetch_data returns
AbortRun ==
    /\ pc' = "aborted"
    /\ UNCHANGED scope

\* an empty batch that also forgets the checkpoint
OnEmptyBatch_reset ==
    /\ ScopeDone
    /\ pointer_file' = None
    /\ UNCHANGED <<last_birthdate, last_person, all_results, batch_count,
                   snapshots, last_saved>>

\* "No more results ... Moving to next range.": break, nothing else changes
OnEmptyBatch ==
    /\ ScopeDone
    /\ UNCHANGED <<pointer_file, last_birthdate, last_person, all_results,
                   batch_count, snapshots, last_saved>>

\* a loop that only stops on an empty batch
IsLastPage_never(n) == FALSE

\* a loop that takes every page for the last one of its year range
IsLastPage_always(n) == TRUE

\* len(batch_results) < BATCH_SIZE: the end of the data of this year range
IsLastPage(n) == n < BATCH_SIZE

\* a flush that writes the snapshot and keeps the buffer
Accumulate_noclear(df) ==
    /\ batch_count' = batch_count + 1
    /\ all_results' = Append(all_results, df)
    /\ IF (batch_count + 1) % SAVE_EVERY_N_BATCHES = 0
       THEN snapshots' = Append(snapshots, Concat(Append(all_results, df)))
       ELSE UNCHANGED snapshots

\* all_results.append; batch_count += 1; the periodic flush
Accumulate(df) ==
    /\ batch_count' = batch_count + 1
    /\ IF (batch_count + 1) % SAVE_EVERY_N_BATCHES = 0
       THEN /\ snapshots' = Append(snapshots, Concat(Append(all_results, df)))
            /\ all_results' = <<>>
       ELSE /\ all_results' = Append(all_results, df)
            /\ UNCHANGED snapshots

\* a loop that never persists its cursor
SavesPointer_never(lb, lp) == FALSE

\* wiki_birth.py saves the pointer only when both fields are not null;
\* wiki_german_de.py saves it always
SavesPointer(lb, lp) == script = "wiki_german_de" \/ (NotNa(lb) /\ NotNa(lp))

\* the body of the while loop after query_wikidata has returned
PageProcess ==
    /\ pc = "page_process"
    /\ script # "missing"
    /\ IF batch_results = None
       THEN /\ AbortRun
            /\ UNCHANGED <<pointer_file, last_birthdate, last_person,
                           all_results, batch_count, snapshots, last_saved,
                           queryVars>>
       ELSE IF IsEmptyDf(batch_results[1])
       THEN /\ OnEmptyBatch
            /\ UNCHANGED queryVars
       ELSE LET df == process_results(batch_results[1])
                n == Len(df.rows)
                lb == df.rows[n]["birthdate"]
                lp == df.rows[n]["person"]
            IN IF "birthdate" \notin df.cols
               THEN \* KeyError in the try block: break
                    /\ ScopeDone
                    /\ UNCHANGED <<pointer_file, last_birthdate, last_person,
                                   all_results, batch_count, snapshots,
                                   last_saved, queryVars>>
               ELSE IF "person" \notin df.cols
               THEN /\ last_birthdate' = lb
                    /\ ScopeDone
                    /\ UNCHANGED <<pointer_file, last_person, all_results,
                                   batch_count, snapshots, last_saved,
                                   queryVars>>
               ELSE /\ last_birthdate' = lb
                    /\ last_person' = lp
                    /\ IF SavesPointer(lb, lp)
                       THEN /\ pointer_file' = save_pointer(EncodePointer(lb, lp))
                            /\ last_saved' = Some(EncodePointer(lb, lp))
                       ELSE UNCHANGED <<pointer_file, last_saved>>
                    /\ Accumulate(df)
                    /\ IF IsLastPage(n)
                       THEN /\ ScopeDone
                            /\ UNCHANGED queryVars
                       ELSE /\ pc' = "page_fetch"
                            /\ StartQuery
                            /\ UNCHANGED <<scope, fetch_log>>
    /\ UNCHANGED <<script, runVars, labelVars, db, final_csv, idVars, loaded, normVars>>

\* an end of run that forgets the buffer
FinalSave_skip ==
    /\ pc = "final_save"
    /\ pc' = "done"
    /\ UNCHANGED <<script, runVars, labelVars, pointer_file, fetchVars,
                   queryVars, bufferVars, idVars, storeVars, normVars>>

\* after the for loop: the buffered batches go to the final dataset
FinalSave ==
    /\ pc = "final_save"
    /\ final_csv' = IF all_results # <<>> THEN Some(Concat(all_results))
                    ELSE final_csv
    /\ pc' = "done"
    /\ UNCHANGED <<script, runVars, labelVars, pointer_file, fetchVars, queryVars, all_results,
                   batch_count, snapshots, idVars, storeVars, normVars>>

(***************************************************************************)
(* fetch_data_for_ids (missing.py).                                        *)
(***************************************************************************)
Contains(seq, x) == \E i \in 1..Len(seq) : seq[i] = x

\* a search that finds the last position of x
IndexOf_last(seq, x) == CHOOSE i \in 1..Len(seq) :
                           seq[i] = x /\ \A j \in (i + 1)..Len(seq) : seq[j] # x

\* list.index(x): the first position of x
IndexOf(seq, x) == CHOOSE i \in 1..Len(seq) :
                      seq[i] = x /\ \A j \in 1..(i - 1) : seq[j] # x

\* lambda x: x.split("/")[-1] if "/" in x else x
LastSegment(x) ==
    IF Contains(x, "/")
    THEN LET parts == Split(x, "/") IN parts[Len(parts)]
    ELSE x

\* df["wikidata_id"].dropna().apply(...).tolist()
ReadIds(column) == [i \in 1..Len(column) |-> LastSegment(column[i])]

\* a resume that gives up when the pointer is not in the list
ResumeFrom_drop(ids, last_pointer) ==
    IF Falsy(last_pointer) THEN ids
    ELSE IF Contains(ids, last_pointer[1])
    THEN SubSeq(ids, IndexOf(ids, last_pointer[1]) + 1, Len(ids))
    ELSE <<>>

\* the resume slice: the IDs after the pointer's first occurrence, or the
\* whole list when there is no pointer or index() raises ValueError
ResumeFrom(ids, last_pointer) ==
    IF Falsy(last_pointer) THEN ids
    ELSE IF Contains(ids, last_pointer[1])
    THEN SubSeq(ids, IndexOf(ids, last_pointer[1]) + 1, Len(ids))
    ELSE ids

\* a column check that always passes
MissingColumn_never(c) == FALSE

\* "wikidata_id" not in df.columns / 'occupation' not in data.columns
MissingColumn(c) == c \notin input_cols

\* fetch_data_for_ids up to the for loop
IdsStart ==
    /\ pc = "ids_start"
    /\ LET ids == ReadIds(id_list)
           last_pointer == load_pointer(pointer_file)
       IN IF MissingColumn("wikidata_id")
          THEN \* "CSV file must contain a 'wikidata_id' column.": return
               /\ pc' = "done"
               /\ UNCHANGED <<wikidata_ids, loaded>>
          ELSE IF ids = <<>>
          THEN \* "No Wikidata IDs found in the file.": return
               /\ pc' = "done"
               /\ UNCHANGED <<wikidata_ids, loaded>>
          ELSE /\ loaded' = last_pointer
               /\ wikidata_ids' = ResumeFrom(ids, last_pointer)
               /\ pc' = IF ResumeFrom(ids, last_pointer) = <<>>
                        THEN "final_save" ELSE "page_fetch"
    /\ idx' = 1
    /\ StartQuery
    /\ UNCHANGED <<script, runVars, labelVars, pointer_file, fetchVars, fetch_log, bufferVars,
                   id_list, last_saved, normVars>>

\* the next wikidata_id of the for loop, or the end of the loop
NextId ==
    /\ idx' = idx + 1
    /\ pc' = IF idx < Len(wikidata_ids) THEN "page_fetch" ELSE "final_save"
    /\ StartQuery

\* a for loop that gives the run up at the first ID whose fetch failed
IdsProcess_abort ==
    /\ pc = "page_process"
    /\ script = "missing"
    /\ IF batch_results = None
       THEN /\ pc' = "aborted"
            /\ UNCHANGED <<pointer_file, all_results, batch_count, snapshots,
                           last_saved, idx, queryVars>>
       ELSE IF IsEmptyDf(batch_results[1])
       THEN /\ NextId
            /\ UNCHANGED <<pointer_file, all_results, batch_count, snapshots,
                           last_saved>>
       ELSE /\ Accumulate(process_results(batch_results[1]))
            /\ pointer_file' = save_pointer(wikidata_ids[idx])
            /\ last_saved' = Some(wikidata_ids[idx])
            /\ NextId
    /\ UNCHANGED <<script, runVars, labelVars, fetchVars, fetch_log, final_csv, id_list,
                   wikidata_ids, loaded, normVars>>

\* the body of the for loop after query_wikidata has returned
IdsProcess ==
    /\ pc = "page_process"
    /\ script = "missing"
    /\ IF batch_results = None \/ IsEmptyDf(batch_results[1])
       THEN \* "Skipping..." / "No results": continue
            /\ NextId
            /\ UNCHANGED <<pointer_file, all_results, batch_count, snapshots,
                           last_saved>>
       ELSE /\ Accumulate(process_results(batch_results[1]))
            /\ pointer_file' = save_pointer(wikidata_ids[idx])
            /\ last_saved' = Some(wikidata_ids[idx])
            /\ NextId
    /\ UNCHANGED <<script, runVars, labelVars, fetchVars, fetch_log, final_csv, id_list,
                   wikidata_ids, loaded, normVars>>

(***************************************************************************)
(* File operations that raise: the open(), read() or write() of the        *)
(* checkpoint file, the to_csv of an intermediate snapshot.                *)
(***************************************************************************)
\* what load_pointer of missing.py returns when the read raises: the except
\* block logs the error and the function falls through to return None
LoadFailed == None

\* pointer.txt after a save_pointer that raised: as it was when open() raised,
\* empty when open(filename, "w") had truncated it before the write raised
AfterFailedSave == {pointer_file, Some(<<>>)}

\* load_pointer of wiki_birth.py / wiki_german_de.py has no try block: the
\* exception of open() or read() leaves load_pointer and fetch_data
ScopeInitReadError ==
    /\ pc = "scope_init"
    /\ pointer_file # None
    /\ io_errors' = io_errors \cup {"pointer_read"}
    /\ pc' = "crashed"
    /\ UNCHANGED <<script, run, lost, trVars, instVars, labelVars,
                   pointer_file, fetchVars, queryVars, bufferVars, idVars,
                   storeVars, normVars>>

\* fetch_data_for_ids when the read of id_pointer.txt raises: load_pointer
\* returns None and the whole list is processed
IdsStartReadError ==
    /\ pc = "ids_start"
    /\ pointer_file # None
    /\ ~MissingColumn("wikidata_id")
    /\ ReadIds(id_list) # <<>>
    /\ io_errors' = io_errors \cup {"pointer_read"}
    /\ loaded' = LoadFailed
    /\ wikidata_ids' = ResumeFrom(ReadIds(id_list), LoadFailed)
    /\ pc' = "page_fetch"
    /\ idx' = 1
    /\ StartQuery
    /\ UNCHANGED <<script, run, lost, trVars, instVars, labelVars,
                   pointer_file, fetchVars, fetch_log, bufferVars, id_list,
                   last_saved, normVars>>

\* fetch_data when save_pointer raises: the call is inside the try block, so
\* "Error extracting pointer" is logged and the while loop is left before
\* the batch is appended
PageProcessPointerError ==
    /\ pc = "page_process"
    /\ script # "missing"
    /\ batch_results # None
    /\ ~IsEmptyDf(batch_results[1])
    /\ LET df == process_results(batch_results[1])
           n == Len(df.rows)
           lb == df.rows[n]["birthdate"]
           lp == df.rows[n]["person"]
       IN /\ {"birthdate", "person"} \subseteq df.cols
          /\ SavesPointer(lb, lp)
          /\ last_birthdate' = lb
          /\ last_person' = lp
    /\ pointer_file' \in AfterFailedSave
    /\ io_errors' = io_errors \cup {"pointer_write"}
    /\ ScopeDone
    /\ UNCHANGED <<script, run, lost, trVars, instVars, labelVars, db,
                   queryVars, bufferVars, idVars, storeVars, normVars>>

\* fetch_data when save_intermediate_results raises: neither the function
\* nor its call has a try block, the exception leaves fetch_data
PageProcessSnapshotError ==
    /\ pc = "page_process"
    /\ script # "missing"
    /\ batch_results # None
    /\ ~IsEmptyDf(batch_results[1])
    /\ (batch_count + 1) % SAVE_EVERY_N_BATCHES = 0
    /\ LET df == process_results(batch_results[1])
           n == Len(df.rows)
           lb == df.rows[n]["birthdate"]
           lp == df.rows[n]["person"]
       IN /\ {"birthdate", "person"} \subseteq df.cols
          /\ last_birthdate' = lb
          /\ last_person' = lp
          /\ IF SavesPointer(lb, lp)
             THEN /\ pointer_file' = save_pointer(EncodePointer(lb, lp))
                  /\ last_saved' = Some(EncodePointer(lb, lp))
             ELSE UNCHANGED <<pointer_file, last_saved>>
          /\ all_results' = Append(all_results, df)
    /\ batch_count' = batch_count + 1
    /\ io_errors' = io_errors \cup {"snapshot_write"}
    /\ pc' = "crashed"
    /\ UNCHANGED <<script, run, lost, trVars, instVars, labelVars, db, scope,
                   queryVars, snapshots, final_csv, idVars, loaded, normVars>>

\* fetch_data_for_ids when save_pointer raises: the call has no try block,
\* the exception leaves fetch_data_for_ids after the batch was appended
IdsProcessPointerError ==
    /\ pc = "page_process"
    /\ script = "missing"
    /\ batch_results # None
    /\ ~IsEmptyDf(batch_results[1])
    /\ all_results' = Append(all_results, process_results(batch_results[1]))
    /\ batch_count' = batch_count + 1
    /\ pointer_file' \in AfterFailedSave
    /\ io_errors' = io_errors \cup {"pointer_write"}
    /\ pc' = "crashed"
    /\ UNCHANGED <<script, run, lost, trVars, instVars, labelVars, fetchVars,
                   queryVars, snapshots, final_csv, idVars, storeVars,
                   normVars>>

\* fetch_data_for_ids when the snapshot cannot be written: the try block of
\* save_intermediate_results logs the error, the caller clears the buffer
\* all the same and goes on with the next ID
IdsProcessSnapshotError ==
    /\ pc = "page_process"
    /\ script = "missing"
    /\ batch_results # None
    /\ ~IsEmptyDf(batch_results[1])
    /\ (batch_count + 1) % SAVE_EVERY_N_BATCHES = 0
    /\ batch_count' = batch_count + 1
    /\ pointer_file' = save_pointer(wikidata_ids[idx])
    /\ last_saved' = Some(wikidata_ids[idx])
    /\ all_results' = <<>>
    /\ io_errors' = io_errors \cup {"snapshot_write"}
    /\ NextId
    /\ UNCHANGED <<script, run, lost, trVars, instVars, labelVars, fetchVars,
                   fetch_log, snapshots, final_csv, id_list, wikidata_ids,
                   loaded, normVars>>

(***************************************************************************)
(* The checkpoint store on its own: any sequence of saves and loads.       *)
(***************************************************************************)
PointerChars == {"Q", " ", "|"}

\* the strings of at most n characters
RECURSIVE Strings(_)
Strings(n) ==
    IF n = 0 THEN {<<>>}
    ELSE Strings(n - 1) \cup
         {Append(s, c) : s \in {t \in Strings(n - 1) : Len(t) = n - 1},
                         c \in PointerChars}

StoreSave ==
    /\ pc \in {"store", "store_loaded"}
    /\ \E pointer \in Strings(MaxStrLen) :
        /\ pointer_file' = save_pointer(pointer)
        /\ last_saved' = Some(pointer)
    /\ pc' = "store"
    /\ UNCHANGED <<script, runVars, labelVars, fetchVars, queryVars, bufferVars, idVars, loaded,
                   normVars>>

StoreLoad ==
    /\ pc \in {"store", "store_loaded"}
    /\ loaded' = load_pointer(pointer_file)
    /\ pc' = "store_loaded"
    /\ UNCHANGED <<script, runVars, labelVars, pointer_file, fetchVars, queryVars, bufferVars,
                   idVars, last_saved, normVars>>

(***************************************************************************)
(* process_results on its own: one pass, then a second pass.               *)
(***************************************************************************)
NormOnce ==
    /\ pc = "norm"
    /\ once_df' = process_results(raw_df)
    /\ pc' = "norm_once"
    /\ UNCHANGED <<script, runVars, labelVars, pointer_file, fetchVars, queryVars, bufferVars,
                   idVars, storeVars, raw_df, twice_df>>

NormTwice ==
    /\ pc = "norm_once"
    /\ twice_df' = process_results(once_df)
    /\ pc' = "norm_twice"
    /\ UNCHANGED <<script, runVars, labelVars, pointer_file, fetchVars, queryVars, bufferVars,
                   idVars, storeVars, raw_df, once_df>>

(***************************************************************************)
(* birthlabel.py: the labels of the birthplaces, fetched in batches with a *)
(* per-record fallback, then merged into the dataset.                      *)
(***************************************************************************)
\* lambda x: x.split('/')[-1] if isinstance(x, str) else None
BirthplaceId(x) ==
    IF x.tag = "str"
    THEN LET parts == Split(x.str, "/") IN PyStr(parts[Len(parts)])
    ELSE PyNone

\* unique(): the first occurrences, in order
RECURSIVE Unique(_)
Unique(seq) ==
    IF seq = <<>> THEN <<>>
    ELSE LET init == Unique(SubSeq(seq, 1, Len(seq) - 1))
         IN IF Contains(init, seq[Len(seq)]) THEN init
            ELSE Append(init, seq[Len(seq)])

\* df['birthplace_id'].dropna().unique().tolist()
AllIds(data) ==
    LET keys == [i \in 1..Len(data) |-> BirthplaceId(data[i]["birthplace"])]
        present == SelectSeq(keys, LAMBDA k : k.tag = "str")
    IN Unique([i \in 1..Len(present) |-> present[i].str])

\* pd.read_csv of a labels file: an empty label field is read as NaN
ReadLabels(rows) ==
    [i \in 1..Len(rows) |->
        [birthplace_id |-> rows[i].birthplace_id,
         label |-> IF NotNa(rows[i].label) THEN rows[i].label ELSE PyNaN]]

\* the rows of the output file when it exists, else an empty frame
load_or_create_dataframe(file) ==
    IF file = None THEN <<>> ELSE ReadLabels(file[1])

\* [id for id in all_ids if str(id) not in processed_ids]
IdsToProcess(data, results) ==
    SelectSeq(AllIds(data),
              LAMBDA id : \A r \in 1..Len(results) :
                              results[r].birthplace_id # id)

\* what the API answers for an entity: its English label, or no label
ServerLabel(id) ==
    IF id = <<"P", "1">> THEN PyStr(<<"a">>)
    ELSE IF id = <<"P", "3">> THEN PyStr(<<"e">>)
    ELSE PyNone

\* batch = ids_to_process[i:i + BATCH_SIZE]
Batch ==
    SubSeq(ids_to_process, batch_i + 1,
           IF batch_i + LABEL_BATCH_SIZE < Len(ids_to_process)
           THEN batch_i + LABEL_BATCH_SIZE ELSE Len(ids_to_process))

\* the entity get_single_label was called for
Entity == IF caller = "batch" THEN missing_ids[loop_k] ELSE Batch[loop_k]

NullRow(id) == [birthplace_id |-> id, label |-> PyNone]

\* a handler that drops the record it could not process
OnSingleFailure_drop(df, id) == df

\* "Store as None to indicate failure": a row with a null label
OnSingleFailure(df, id) == Append(df, NullRow(id))

\* the variables birthlabel.py does not touch
nonLabelVars == <<script, pointer_file, fetchVars, batch_results, fetch_log,
                  bufferVars, idVars, storeVars, normVars, runVars>>

\* process_all_birthplaces up to the batch loop
LabelsStart ==
    /\ pc = "lbl_start"
    /\ results_df' = load_or_create_dataframe(labels_csv)
    /\ ids_to_process' = IdsToProcess(dataset, results_df')
    /\ batch_i' = 0
    /\ pc' = IF ids_to_process' # <<>> THEN "lbl_request" ELSE "merge"
    /\ UNCHANGED <<nonLabelVars, attempt, outcomes, sleeps, events, dataset,
                   labels_csv, batch_result, missing_ids, loop_k, caller,
                   label_ret, failed_ids, merged_df>>

\* the next i of range(0, len(ids_to_process), BATCH_SIZE), or the return
NextBatch ==
    /\ batch_i' = batch_i + LABEL_BATCH_SIZE
    /\ pc' = IF batch_i + LABEL_BATCH_SIZE < Len(ids_to_process)
             THEN "lbl_request" ELSE "merge"

\* get_batch_labels: the batch request succeeds; the IDs without a label are
\* left for get_single_label
BatchRequestOk ==
    /\ pc = "lbl_request"
    /\ events' = <<Delay(REQUEST_DELAY), Request>>
    /\ outcomes' = <<"ok">>
    /\ batch_result' = [id \in {Batch[k] : k \in 1..Len(Batch)} |->
                          ServerLabel(id)]
    /\ missing_ids' = SelectSeq(Batch, LAMBDA id : ServerLabel(id) = PyNone)
    /\ loop_k' = 1
    /\ caller' = "batch"
    /\ pc' = "lbl_missing"
    /\ UNCHANGED <<nonLabelVars, attempt, sleeps, dataset, labels_csv,
                   results_df, ids_to_process, batch_i, label_ret, failed_ids,
                   merged_df>>

\* get_batch_labels: the batch request raises; every ID is tried on its own
BatchRequestFail ==
    /\ pc = "lbl_request"
    /\ events' = <<Delay(REQUEST_DELAY), Request>>
    /\ outcomes' = <<"fail">>
    /\ batch_result' = [id \in {Batch[k] : k \in 1..Len(Batch)} |-> PyNone]
    /\ missing_ids' = Batch
    /\ loop_k' = 1
    /\ caller' = "batch"
    /\ pc' = "lbl_missing"
    /\ UNCHANGED <<nonLabelVars, attempt, sleeps, dataset, labels_csv,
                   results_df, ids_to_process, batch_i, label_ret, failed_ids,
                   merged_df>>

\* entering get_single_label
EnterSingle ==
    /\ attempt' = 0
    /\ outcomes' = <<>>
    /\ sleeps' = <<>>
    /\ events' = <<>>
    /\ label_ret' = None
    /\ pc' = "lbl_single"

\* for entity_id in missing_ids: the next lookup, or return batch_result
MissingNext ==
    /\ pc = "lbl_missing"
    /\ IF loop_k <= Len(missing_ids)
       THEN EnterSingle
       ELSE /\ pc' = "lbl_write"
            /\ UNCHANGED <<attempt, outcomes, sleeps, events, label_ret>>
    /\ UNCHANGED <<nonLabelVars, dataset, labels_csv, results_df,
                   ids_to_process, batch_i, batch_result, missing_ids, loop_k,
                   caller, failed_ids, merged_df>>

\* if attempt == retries - 1: return None
LastLabelAttempt == attempt = LABEL_MAX_RETRIES - 1

\* time.sleep(REQUEST_DELAY) at the top of the try block
PoliteDelay == <<Delay(REQUEST_DELAY)>>

\* time.sleep(2 ** attempt), reached unless this was the last attempt
LabelBackoff ==
    IF LastLabelAttempt THEN <<>> ELSE <<BackoffSleep(Pow2(attempt))>>

\* get_single_label: the request succeeds; the label, or None without one
SingleOk ==
    /\ pc = "lbl_single"
    /\ events' = events \o PoliteDelay \o <<Request>>
    /\ outcomes' = Append(outcomes, "ok")
    /\ label_ret' = Some(ServerLabel(Entity))
    /\ pc' = "lbl_ret"
    /\ UNCHANGED <<nonLabelVars, attempt, sleeps, dataset, labels_csv,
                   results_df, ids_to_process, batch_i, batch_result,
                   missing_ids, loop_k, caller, failed_ids, merged_df>>

\* get_single_label: RequestException; None after the last attempt, else the
\* backoff sleep and the next attempt
SingleFail ==
    /\ pc = "lbl_single"
    /\ outcomes' = Append(outcomes, "fail")
    /\ events' = events \o PoliteDelay \o <<Request>> \o LabelBackoff
    /\ IF LastLabelAttempt
       THEN /\ label_ret' = Some(PyNone)
            /\ pc' = "lbl_ret"
            /\ UNCHANGED <<attempt, sleeps>>
       ELSE /\ sleeps' = Append(sleeps, Pow2(attempt))
            /\ attempt' = attempt + 1
            /\ UNCHANGED <<label_ret, pc>>
    /\ UNCHANGED <<nonLabelVars, dataset, labels_csv, results_df,
                   ids_to_process, batch_i, batch_result, missing_ids, loop_k,
                   caller, failed_ids, merged_df>>

\* get_single_label: an exception that is no RequestException (a malformed
\* answer) leaves the function
SingleRaise ==
    /\ pc = "lbl_single"
    /\ events' = events \o PoliteDelay \o <<Request>>
    /\ outcomes' = Append(outcomes, "raise")
    /\ pc' = "lbl_raised"
    /\ UNCHANGED <<nonLabelVars, attempt, sleeps, dataset, labels_csv,
                   results_df, ids_to_process, batch_i, batch_result,
                   missing_ids, loop_k, caller, label_ret, failed_ids,
                   merged_df>>

\* get_batch_labels: batch_result[entity_id] = label
MissingReturn ==
    /\ pc = "lbl_ret"
    /\ caller = "batch"
    /\ batch_result' = [batch_result EXCEPT ![Entity] = label_ret[1]]
    /\ loop_k' = loop_k + 1
    /\ pc' = "lbl_missing"
    /\ UNCHANGED <<nonLabelVars, attempt, outcomes, sleeps, events, dataset,
                   labels_csv, results_df, ids_to_process, batch_i,
                   missing_ids, caller, label_ret, failed_ids, merged_df>>

\* the exception leaves get_batch_labels and reaches the except block of
\* process_all_birthplaces: "Attempting to process items individually..."
BatchRaised ==
    /\ pc = "lbl_raised"
    /\ caller = "batch"
    /\ caller' = "fallback"
    /\ loop_k' = 1
    /\ pc' = "lbl_fallback"
    /\ UNCHANGED <<nonLabelVars, attempt, outcomes, sleeps, events, dataset,
                   labels_csv, results_df, ids_to_process, batch_i,
                   batch_result, missing_ids, label_ret, failed_ids,
                   merged_df>>

\* batch_df: one row per ID of the batch
BatchRows ==
    [k \in 1..Len(Batch) |->
        [birthplace_id |-> Batch[k], label |-> batch_result[Batch[k]]]]

\* results_df = pd.concat(...); results_df.to_csv(...) succeeds
BatchWriteOk ==
    /\ pc = "lbl_write"
    /\ results_df' = results_df \o BatchRows
    /\ labels_csv' = Some(results_df')
    /\ NextBatch
    /\ UNCHANGED <<nonLabelVars, attempt, outcomes, sleeps, events, dataset,
                   ids_to_process, batch_result, missing_ids, loop_k, caller,
                   label_ret, failed_ids, merged_df>>

\* to_csv raises after the concat: the except block of the batch
BatchWriteFail ==
    /\ pc = "lbl_write"
    /\ results_df' = results_df \o BatchRows
    /\ caller' = "fallback"
    /\ loop_k' = 1
    /\ pc' = "lbl_fallback"
    /\ UNCHANGED <<nonLabelVars, attempt, outcomes, sleeps, events, dataset,
                   labels_csv, ids_to_process, batch_i, batch_result,
                   missing_ids, label_ret, failed_ids, merged_df>>

\* for entity_id in batch: the next lookup, or the next batch
FallbackNext ==
    /\ pc = "lbl_fallback"
    /\ IF loop_k <= Len(Batch)
       THEN /\ EnterSingle
            /\ UNCHANGED batch_i
       ELSE /\ NextBatch
            /\ UNCHANGED <<attempt, outcomes, sleeps, events, label_ret>>
    /\ UNCHANGED <<nonLabelVars, dataset, labels_csv, results_df,
                   ids_to_process, batch_result, missing_ids, loop_k, caller,
                   failed_ids, merged_df>>

\* the lookup of the fallback loop found no label because every attempt failed
LookupFailed == outcomes # <<>> /\ outcomes[Len(outcomes)] = "fail"

\* the fallback loop after get_single_label has returned: the row is added
\* and written; when to_csv raises, the inner except block adds a null row
\* and writes again, and an exception of that write leaves the function
FallbackReturn ==
    /\ pc = "lbl_ret"
    /\ caller = "fallback"
    /\ failed_ids' = IF LookupFailed THEN failed_ids \cup {Entity}
                     ELSE failed_ids
    /\ LET row == [birthplace_id |-> Entity, label |-> label_ret[1]]
       IN \E written \in {"first", "second", "never"} :
            /\ results_df' =
                  IF written = "first" THEN Append(results_df, row)
                  ELSE OnSingleFailure(Append(results_df, row), Entity)
            /\ IF written = "never"
               THEN /\ pc' = "crashed"
                    /\ UNCHANGED <<labels_csv, loop_k>>
               ELSE /\ labels_csv' = Some(results_df')
                    /\ loop_k' = loop_k + 1
                    /\ pc' = "lbl_fallback"
    /\ UNCHANGED <<nonLabelVars, attempt, outcomes, sleeps, events, dataset,
                   ids_to_process, batch_i, batch_result, missing_ids, caller,
                   label_ret, merged_df>>

\* the fallback loop when get_single_label raised: "Failed to process ...",
\* a null row is added and written
FallbackRaised ==
    /\ pc = "lbl_raised"
    /\ caller = "fallback"
    /\ failed_ids' = failed_ids \cup {Entity}
    /\ results_df' = OnSingleFailure(results_df, Entity)
    /\ \E written \in BOOLEAN :
          IF written
          THEN /\ labels_csv' = Some(results_df')
               /\ loop_k' = loop_k + 1
               /\ pc' = "lbl_fallback"
          ELSE /\ pc' = "crashed"
               /\ UNCHANGED <<labels_csv, loop_k>>
    /\ UNCHANGED <<nonLabelVars, attempt, outcomes, sleeps, events, dataset,
                   ids_to_process, batch_i, batch_result, missing_ids, caller,
                   label_ret, merged_df>>

\* an inner join: a base row without a label row is dropped
JoinedLabels_inner(matches) == [m \in 1..Len(matches) |-> matches[m].label]

\* how='left': the label of every matching label row, in their order, or
\* one null label when no label row matches
JoinedLabels(matches) ==
    IF matches = <<>> THEN <<PyNaN>>
    ELSE [m \in 1..Len(matches) |-> matches[m].label]

RECURSIVE Merge(_, _)
\* df.merge(labels_df, on='birthplace_id', how='left'), with birthplace_id
\* the last path segment of birthplace
Merge(df, labels_df) ==
    IF df = <<>> THEN <<>>
    ELSE LET row == Head(df)
             key == BirthplaceId(row["birthplace"])
             matches == SelectSeq(labels_df,
                                  LAMBDA l : /\ key.tag = "str"
                                             /\ l.birthplace_id = key.str)
             joined == JoinedLabels(matches)
         IN [m \in 1..Len(joined) |->
                [base |-> row, birthplace_id |-> key, label |-> joined[m]]]
            \o Merge(Tail(df), labels_df)

\* merge_labels_to_dataset; pd.read_csv raises when the labels file was
\* never written
MergeLabels ==
    /\ pc = "merge"
    /\ IF labels_csv = None
       THEN /\ pc' = "crashed"
            /\ UNCHANGED merged_df
       ELSE /\ merged_df' = Some(Merge(dataset, ReadLabels(labels_csv[1])))
            /\ pc' = "done"
    /\ UNCHANGED <<nonLabelVars, attempt, outcomes, sleeps, events, dataset,
                   labels_csv, results_df, ids_to_process, batch_i,
                   batch_result, missing_ids, loop_k, caller, label_ret,
                   failed_ids>>

(***************************************************************************)
(* translation.py: the occupation column translated text by text.          *)
(***************************************************************************)
\* what the DeepL service answers for a text
DeepL(text) == IF text = <<"a">> THEN <<"e">> ELSE <<"x">> \o text

\* translate_text: result.text, or the text itself when the call raises
translate_text(text, ok) == IF ok THEN DeepL(text) ELSE text

\* the variables translation.py does not touch
nonTrVars == <<script, pointer_file, fetchVars, queryVars, bufferVars, idVars,
               storeVars, normVars, run, lost, io_errors, instVars,
               labelVars>>

\* if 'occupation' not in data.columns: raise KeyError
TrStart ==
    /\ pc = "tr_start"
    /\ pc' = IF MissingColumn("occupation") THEN "crashed" ELSE "tr_apply"
    /\ UNCHANGED <<nonTrVars, trVars>>

\* data['occupation'].apply(lambda x: translate_text(x) if pd.notnull(x)
\* else x): one call of the translator per text, each may raise
TrApply ==
    /\ pc = "tr_apply"
    /\ \E ok \in [1..Len(occupations) -> BOOLEAN] :
        translated' =
            Some([i \in 1..Len(occupations) |->
                    IF NotNa(occupations[i])
                    THEN PyStr(translate_text(occupations[i].str, ok[i]))
                    ELSE occupations[i]])
    /\ tr_calls' = LET texts == SelectSeq(occupations, NotNa)
                   IN [i \in 1..Len(texts) |-> texts[i].str]
    /\ pc' = "tr_save"
    /\ UNCHANGED <<nonTrVars, input_cols, occupations, tr_output>>

\* data.to_csv(output_file, index=False)
TrSave ==
    /\ pc = "tr_save"
    /\ tr_output' =
          Some([i \in 1..Len(occupations) |->
                  [occupation |-> occupations[i],
                   translated_occupation |-> translated[1][i]]])
    /\ pc' = "done"
    /\ UNCHANGED <<nonTrVars, input_cols, occupations, tr_calls, translated>>

(***************************************************************************)
(* Initial states.                                                         *)
(***************************************************************************)
\* the variables a run does not use
IdleFetch ==
    /\ db = [s \in 1..NumScopes |-> <<>>]
    /\ scope = 1
    /\ last_birthdate = PyNone
    /\ last_person = PyNone

IdleQuery ==
    /\ attempt = 0
    /\ outcomes = <<>>
    /\ sleeps = <<>>
    /\ events = <<>>
    /\ batch_results = None
    /\ fetch_log = <<>>

IdleBuffer ==
    /\ all_results = <<>>
    /\ batch_count = 0
    /\ snapshots = <<>>
    /\ final_csv = None

IdleIds ==
    /\ id_list = <<>>
    /\ wikidata_ids = <<>>
    /\ idx = 1

IdleStore ==
    /\ loaded = None
    /\ last_saved = None

IdleNorm ==
    /\ raw_df = EmptyDf
    /\ once_df = EmptyDf
    /\ twice_df = EmptyDf

\* no file operation has raised, the input file has its column and
\* translation.py does not run
IdleFiles ==
    /\ io_errors = {}
    /\ input_cols = {"wikidata_id"}
    /\ occupations = <<>>
    /\ tr_calls = <<>>
    /\ translated = None
    /\ tr_output = None

\* IdleFiles, and there is one instance of the script
IdleEnv ==
    /\ IdleFiles
    /\ me = 1
    /\ other = None

\* the first start of the script
FirstRun ==
    /\ run = 1
    /\ lost = <<>>
    /\ IdleEnv

IdleLabels ==
    /\ dataset = <<>>
    /\ labels_csv = None
    /\ results_df = <<>>
    /\ ids_to_process = <<>>
    /\ batch_i = 0
    /\ batch_result = <<>>
    /\ missing_ids = <<>>
    /\ loop_k = 1
    /\ caller = "batch"
    /\ label_ret = None
    /\ failed_ids = {}
    /\ merged_df = None

\* the databases of the model: per scope, the first n rows of its pool, with
\* rows in at most two scopes, one next to the other
Databases ==
    {d \in {[s \in 1..NumScopes |-> ScopeRows(s, n[s])] :
                n \in [1..NumScopes -> 0..MaxRecs]} :
        \E s \in 1..NumScopes :
            \A t \in 1..NumScopes : t \notin {s, s + 1} => d[t] = <<>>}

\* the cursor of a row, as fetch_data writes it to pointer.txt
RowPointer(b) == EncodePointer(Unwrap(b["birthdate"]), Unwrap(b["person"]))

\* pointer.txt at start: absent, or left by an earlier run over the same data
StartPointers(d) ==
    {None} \cup UNION {{Some(RowPointer(d[s][i])) : i \in 1..Len(d[s])} :
                          s \in 1..NumScopes}

Init ==
    /\ script \in {"wiki_birth", "wiki_german_de"}
    /\ db \in Databases
    /\ pointer_file \in StartPointers(db)
    /\ pc = "scope_init"
    /\ scope = 1
    /\ last_birthdate = PyNone
    /\ last_person = PyNone
    /\ IdleQuery
    /\ FirstRun
    /\ IdleLabels
    /\ IdleBuffer
    /\ IdleIds
    /\ IdleStore
    /\ IdleNorm

Next ==
    \/ ScopeInit
    \/ QueryFail
    \/ QueryOk
    \/ PageProcess
    \/ FinalSave

Spec == Init /\ [][Next]_vars


(***************************************************************************)
(* fetch_data_for_ids runs.                                                *)
(***************************************************************************)
\* values of the wikidata_id column: bare IDs and entity URLs
RawIds == {<<"Q", "1">>, <<"Q", "2">>, <<"x", "/", "Q", "1">>}

RECURSIVE Lists(_, _)
\* the lists of at most n elements of S
Lists(S, n) ==
    IF n = 0 THEN {<<>>}
    ELSE Lists(S, n - 1) \cup
         {Append(l, x) : l \in {t \in Lists(S, n - 1) : Len(t) = n - 1},
                         x \in S}

\* id_pointer.txt at start: absent, empty, an ID of the list or another ID
IdPointers == {None, Some(<<>>), Some(<<"Q", "1">>), Some(<<"Q", "2">>),
               Some(<<"Q", "9">>)}

InitIds ==
    /\ script = "missing"
    /\ id_list \in Lists(RawIds, MaxIds)
    /\ pointer_file \in IdPointers
    /\ pc = "ids_start"
    /\ wikidata_ids = <<>>
    /\ idx = 1
    /\ IdleFetch
    /\ IdleQuery
    /\ FirstRun
    /\ IdleLabels
    /\ IdleBuffer
    /\ IdleStore
    /\ IdleNorm

NextIds ==
    \/ IdsStart
    \/ QueryFail
    \/ QueryOk
    \/ IdsProcess
    \/ FinalSave

SpecIds == InitIds /\ [][NextIds]_vars

(***************************************************************************)
(* The three scripts together (query_wikidata is common to them).          *)
(***************************************************************************)
InitAll == Init \/ InitIds

NextAll ==
    \/ ScopeInit
    \/ IdsStart
    \/ QueryFail
    \/ QueryOk
    \/ PageProcess
    \/ IdsProcess
    \/ FinalSave

SpecAll == InitAll /\ [][NextAll]_vars

\* ID lists of bare IDs, with repeats
BareLists == Lists({<<"Q", "1">>, <<"Q", "2">>}, MaxIds)

\* a run of fetch_data from any start, or a run of fetch_data_for_ids, fresh
\* or resumed, over a list of bare IDs
InitFair ==
    \/ Init
    \/ /\ InitIds
       /\ id_list \in BareLists
       /\ pointer_file \in {None, Some(<<"Q", "1">>)}

\* the scripts are sequential programs and every request returns or raises
\* within its timeout: a run that can take a step takes one
SpecAllFair == InitFair /\ [][NextAll]_vars /\ WF_vars(NextAll)

(***************************************************************************)
(* Checkpoint store runs.                                                  *)
(***************************************************************************)
InitStore ==
    /\ script \in {"wiki_birth", "wiki_german_de", "missing"}
    /\ pointer_file = None
    /\ pc = "store"
    /\ IdleFetch
    /\ IdleQuery
    /\ FirstRun
    /\ IdleLabels
    /\ IdleBuffer
    /\ IdleIds
    /\ IdleStore
    /\ IdleNorm

NextStore == StoreSave \/ StoreLoad

SpecStore == InitStore /\ [][NextStore]_vars

(***************************************************************************)
(* Normalizer runs: raw batches of bindings over two of the columns.       *)
(***************************************************************************)
\* what a field of a raw binding can hold
RawCells ==
    {PyMissing, PyNone, PyStr(<<"a">>), PyDict(<<>>), PyDict(<<PyNone>>),
     Envelope(<<"a">>), Envelope(<<>>), PyDict(<<Envelope(<<"a">>)>>),
     PyDict(<<PyDict(<<>>)>>)}

RawBindings ==
    {[birthdate |-> b, person |-> p, birthplace |-> PyMissing] :
        b \in RawCells, p \in RawCells}

\* process_results is only called on a batch that is not empty
RawBatches ==
    {df \in {FromRecords(l) : l \in Lists(RawBindings, MaxNormRows)} :
        ~IsEmptyDf(df)}

InitNorm ==
    /\ script \in {"wiki_birth"}
    /\ raw_df \in RawBatches
    /\ once_df = EmptyDf
    /\ twice_df = EmptyDf
    /\ pointer_file = None
    /\ pc = "norm"
    /\ IdleFetch
    /\ IdleQuery
    /\ FirstRun
    /\ IdleLabels
    /\ IdleBuffer
    /\ IdleIds
    /\ IdleStore

NextNorm == NormOnce \/ NormTwice

SpecNorm == InitNorm /\ [][NextNorm]_vars


(***************************************************************************)
(* birthlabel.py runs: process_all_birthplaces, then the merge.            *)
(***************************************************************************)
\* the birthplace field of a dataset row: entity URLs, a bare ID, no value
Birthplaces ==
    {PyStr(<<"x", "/", "P", "1">>), PyStr(<<"P", "2">>),
     PyStr(<<"x", "/", "P", "3">>), PyNaN}

\* the rows of final_dataset.csv, told apart by their person field
DatasetOf(bps) ==
    [i \in 1..Len(bps) |->
        [birthdate |-> PyStr(<<"1", "0">>),
         person |-> PyStr(<<"Q", Digit(i)>>),
         birthplace |-> bps[i]]]

\* birthplace_labels.csv at start: absent, or left by an earlier run
StartLabels ==
    {None, Some(<<[birthplace_id |-> <<"P", "1">>, label |-> PyStr(<<"a">>)]>>)}

InitLabels ==
    /\ script = "birthlabel"
    /\ dataset \in {DatasetOf(bps) : bps \in Lists(Birthplaces, MaxDataRows)}
    /\ labels_csv \in StartLabels
    /\ pc = "lbl_start"
    /\ results_df = <<>>
    /\ ids_to_process = <<>>
    /\ batch_i = 0
    /\ batch_result = <<>>
    /\ missing_ids = <<>>
    /\ loop_k = 1
    /\ caller = "batch"
    /\ label_ret = None
    /\ failed_ids = {}
    /\ merged_df = None
    /\ pointer_file = None
    /\ IdleFetch
    /\ attempt = 0
    /\ outcomes = <<>>
    /\ sleeps = <<>>
    /\ events = <<>>
    /\ batch_results = None
    /\ fetch_log = <<>>
    /\ FirstRun
    /\ IdleBuffer
    /\ IdleIds
    /\ IdleStore
    /\ IdleNorm

NextLabels ==
    \/ LabelsStart
    \/ BatchRequestOk
    \/ BatchRequestFail
    \/ MissingNext
    \/ SingleOk
    \/ SingleFail
    \/ SingleRaise
    \/ MissingReturn
    \/ BatchRaised
    \/ BatchWriteOk
    \/ BatchWriteFail
    \/ FallbackNext
    \/ FallbackReturn
    \/ FallbackRaised
    \/ MergeLabels

SpecLabels == InitLabels /\ [][NextLabels]_vars

(***************************************************************************)
(* merge_labels_to_dataset on its own: any dataset, any labels file.       *)
(***************************************************************************)
\* most rows of birthplace_labels.csv in the runs of the merge alone
MaxLabelRows == 2

\* rows of a labels file: labels, a null label, two rows for one ID
LabelRows ==
    {[birthplace_id |-> <<"P", "1">>, label |-> PyStr(<<"a">>)],
     [birthplace_id |-> <<"P", "1">>, label |-> PyStr(<<"e">>)],
     [birthplace_id |-> <<"P", "2">>, label |-> PyNone],
     [birthplace_id |-> <<"P", "9">>, label |-> PyStr(<<"e">>)]}

InitMerge ==
    /\ script = "birthlabel"
    /\ dataset \in {DatasetOf(bps) : bps \in Lists(Birthplaces, MaxDataRows)}
    /\ labels_csv \in {None} \cup
                       {Some(l) : l \in Lists(LabelRows, MaxLabelRows)}
    /\ pc = "merge"
    /\ results_df = <<>>
    /\ ids_to_process = <<>>
    /\ batch_i = 0
    /\ batch_result = <<>>
    /\ missing_ids = <<>>
    /\ loop_k = 1
    /\ caller = "batch"
    /\ label_ret = None
    /\ failed_ids = {}
    /\ merged_df = None
    /\ pointer_file = None
    /\ IdleFetch
    /\ attempt = 0
    /\ outcomes = <<>>
    /\ sleeps = <<>>
    /\ events = <<>>
    /\ batch_results = None
    /\ fetch_log = <<>>
    /\ FirstRun
    /\ IdleBuffer
    /\ IdleIds
    /\ IdleStore
    /\ IdleNorm

NextMerge == MergeLabels

SpecMerge == InitMerge /\ [][NextMerge]_vars

(***************************************************************************)
(* fetch_data over answers with a defective binding: one row of the data   *)
(* comes without the value of a cursor field, or without the field.        *)
(***************************************************************************)
\* most calls of query_wikidata in a run over defective data
MaxFetches == 6

\* a cursor field as a defective binding carries it: an envelope without
\* "value", or no entry at all
Defects == {PyDict(<<>>), PyMissing}

\* the database d with field f of row i of scope s replaced by x
Spoil(d, s, i, f, x) == [d EXCEPT ![s][i][f] = x]

BadDatabases ==
    UNION {UNION {{Spoil(d, s, i, f, x) :
                      i \in 1..Len(d[s]), f \in {"birthdate", "person"},
                      x \in Defects} :
                  s \in 1..NumScopes} :
           d \in Databases}

InitBad ==
    /\ script \in {"wiki_birth", "wiki_german_de"}
    /\ db \in BadDatabases
    /\ pointer_file = None
    /\ pc = "scope_init"
    /\ scope = 1
    /\ last_birthdate = PyNone
    /\ last_person = PyNone
    /\ IdleQuery
    /\ FirstRun
    /\ IdleLabels
    /\ IdleBuffer
    /\ IdleIds
    /\ IdleStore
    /\ IdleNorm

\* the runs are cut after MaxFetches calls of query_wikidata
BoundedQueryFail == Len(fetch_log) < MaxFetches /\ QueryFail

BoundedQueryOk == Len(fetch_log) < MaxFetches /\ QueryOk

NextBad ==
    \/ ScopeInit
    \/ BoundedQueryFail
    \/ BoundedQueryOk
    \/ PageProcess
    \/ FinalSave

SpecBad == InitBad /\ [][NextBad]_vars

(***************************************************************************)
(* fetch_data over data in which a cursor field holds the delimiter of the *)
(* checkpoint line, or ends in whitespace.                                 *)
(***************************************************************************)
\* values of a cursor field that the checkpoint line does not carry as they
\* are
OddValues == {<<"Q", "|", "2">>, <<"Q", "2", " ">>}

\* ORDER BY ?birthdate ?person: a row is not before the one it follows
InOrder(rows) ==
    \A i \in 1..(Len(rows) - 1) :
        LET b1 == Unwrap(rows[i]["birthdate"]).str
            b2 == Unwrap(rows[i + 1]["birthdate"]).str
            p1 == Unwrap(rows[i]["person"]).str
            p2 == Unwrap(rows[i + 1]["person"]).str
        IN \/ StrLess(b1, b2)
           \/ b1 = b2 /\ ~StrLess(p2, p1)

\* the databases with one such value in one row, still in query order
OddDatabases ==
    {d \in UNION {UNION {{Spoil(e, s, i, f, Envelope(v)) :
                            i \in 1..Len(e[s]), f \in {"birthdate", "person"},
                            v \in OddValues} :
                        s \in 1..NumScopes} :
                 e \in Databases} :
        \A s \in 1..NumScopes : InOrder(d[s])}

InitCodec ==
    /\ script \in {"wiki_birth", "wiki_german_de"}
    /\ db \in OddDatabases
    /\ pointer_file = None
    /\ pc = "scope_init"
    /\ scope = 1
    /\ last_birthdate = PyNone
    /\ last_person = PyNone
    /\ IdleQuery
    /\ FirstRun
    /\ IdleLabels
    /\ IdleBuffer
    /\ IdleIds
    /\ IdleStore
    /\ IdleNorm

NextCodec ==
    \/ ScopeInit
    \/ BoundedQueryFail
    \/ BoundedQueryOk
    \/ PageProcess
    \/ FinalSave

SpecCodec == InitCodec /\ [][NextCodec]_vars

(***************************************************************************)
(* missing.py and translation.py over input files with and without the     *)
(* column they need.                                                       *)
(***************************************************************************)
\* most rows of unique_occupations.csv
MaxOccupations == 2

\* the header of the input file: the column, the column under another
\* name, or neither
Headers(c) == {{c}, {"id"}, {c, "id"}}

\* the cells of the first column of unique_occupations.csv
Occupations == {PyStr(<<"a">>), PyStr(<<"e">>), PyNaN}

InitSchemaIds ==
    /\ script = "missing"
    /\ id_list \in Lists(RawIds, MaxIds)
    /\ pointer_file \in {None, Some(<<"Q", "1">>)}
    /\ pc = "ids_start"
    /\ wikidata_ids = <<>>
    /\ idx = 1
    /\ input_cols \in Headers("wikidata_id")
    /\ occupations = <<>>

InitSchemaTr ==
    /\ script = "translation"
    /\ IdleIds
    /\ pointer_file = None
    /\ pc = "tr_start"
    /\ input_cols \in Headers("occupation")
    /\ occupations \in Lists(Occupations, MaxOccupations)

InitSchema ==
    /\ InitSchemaIds \/ InitSchemaTr
    /\ IdleFetch
    /\ IdleQuery
    /\ run = 1
    /\ lost = <<>>
    /\ io_errors = {}
    /\ tr_calls = <<>>
    /\ translated = None
    /\ tr_output = None
    /\ me = 1
    /\ other = None
    /\ IdleLabels
    /\ IdleBuffer
    /\ IdleStore
    /\ IdleNorm

NextSchema ==
    \/ IdsStart
    \/ QueryFail
    \/ QueryOk
    \/ IdsProcess
    \/ FinalSave
    \/ TrStart
    \/ TrApply
    \/ TrSave

SpecSchema == InitSchema /\ [][NextSchema]_vars

(***************************************************************************)
(* The three scripts with file operations that can raise.                  *)
(***************************************************************************)
NextIO ==
    \/ ScopeInit
    \/ ScopeInitReadError
    \/ IdsStart
    \/ IdsStartReadError
    \/ QueryFail
    \/ QueryOk
    \/ PageProcess
    \/ PageProcessPointerError
    \/ PageProcessSnapshotError
    \/ IdsProcess
    \/ IdsProcessPointerError
    \/ IdsProcessSnapshotError
    \/ FinalSave

SpecIO == InitAll /\ [][NextIO]_vars

(***************************************************************************)
(* Two processes running fetch_data at the same time in one directory:     *)
(* pointer.txt, the intermediate files and the final dataset are shared,   *)
(* everything else is local to a process.  The variables hold the locals   *)
(* of the process that takes the next step, other those of the process     *)
(* that waits.                                                             *)
(***************************************************************************)
\* most rows the server holds for one scope in these runs
MaxTwoRecs == 4

\* the local variables of the process that is running
Locals ==
    [pc |-> pc, scope |-> scope, last_birthdate |-> last_birthdate,
     last_person |-> last_person, attempt |-> attempt, outcomes |-> outcomes,
     sleeps |-> sleeps, events |-> events, batch_results |-> batch_results,
     fetch_log |-> fetch_log, all_results |-> all_results,
     batch_count |-> batch_count, loaded |-> loaded,
     last_saved |-> last_saved]

\* the local variables of a process that has just entered fetch_data
FreshLocals ==
    [pc |-> "scope_init", scope |-> 1, last_birthdate |-> PyNone,
     last_person |-> PyNone, attempt |-> 0, outcomes |-> <<>>,
     sleeps |-> <<>>, events |-> <<>>, batch_results |-> None,
     fetch_log |-> <<>>, all_results |-> <<>>, batch_count |-> 0,
     loaded |-> None, last_saved |-> None]

\* the operating system lets the other process run.  A request touches no
\* file, so a switch in front of it gives the runs of a switch behind it.
Yield ==
    /\ other # None
    /\ pc # "page_fetch"
    /\ other[1].pc \notin {"done", "aborted", "crashed"}
    /\ other' = Some(Locals)
    /\ me' = 3 - me
    /\ pc' = other[1].pc
    /\ scope' = other[1].scope
    /\ last_birthdate' = other[1].last_birthdate
    /\ last_person' = other[1].last_person
    /\ attempt' = other[1].attempt
    /\ outcomes' = other[1].outcomes
    /\ sleeps' = other[1].sleeps
    /\ events' = other[1].events
    /\ batch_results' = other[1].batch_results
    /\ fetch_log' = other[1].fetch_log
    /\ all_results' = other[1].all_results
    /\ batch_count' = other[1].batch_count
    /\ loaded' = other[1].loaded
    /\ last_saved' = other[1].last_saved
    /\ UNCHANGED <<script, db, pointer_file, snapshots, final_csv, idVars,
                   normVars, run, lost, io_errors, trVars, labelVars>>

\* one process, or two, started on a directory without pointer.txt
InitTwo ==
    /\ script \in {"wiki_birth", "wiki_german_de"}
    /\ db \in {d \in Databases :
                  \A s \in 1..NumScopes : Len(d[s]) <= MaxTwoRecs}
    /\ pointer_file = None
    /\ pc = "scope_init"
    /\ scope = 1
    /\ last_birthdate = PyNone
    /\ last_person = PyNone
    /\ IdleQuery
    /\ run = 1
    /\ lost = <<>>
    /\ IdleFiles
    /\ me = 1
    /\ other \in {None, Some(FreshLocals)}
    /\ IdleLabels
    /\ IdleBuffer
    /\ IdleIds
    /\ IdleStore
    /\ IdleNorm

\* the requests of these runs succeed
NextTwo ==
    \/ ScopeInit
    \/ QueryOk
    \/ PageProcess
    \/ FinalSave
    \/ Yield

SpecTwo == InitTwo /\ [][NextTwo]_vars

(***************************************************************************)
(* Runs in which the process is killed and the script started again.       *)
(***************************************************************************)
\* the process is killed between two batches and the script is started
\* again: the files stay as they are, the locals are those of a fresh start
Kill ==
    /\ run < MaxRuns
    /\ pc = "scope_init" \/ (pc = "page_fetch" /\ outcomes = <<>>)
    /\ run' = run + 1
    /\ lost' = lost \o all_results
    /\ all_results' = <<>>
    /\ batch_count' = 0
    /\ scope' = 1
    /\ last_birthdate' = PyNone
    /\ last_person' = PyNone
    /\ wikidata_ids' = <<>>
    /\ idx' = 1
    /\ loaded' = None
    /\ StartQuery
    /\ pc' = IF script = "missing" THEN "ids_start" ELSE "scope_init"
    /\ UNCHANGED <<script, labelVars, db, pointer_file, snapshots, final_csv,
                   fetch_log, id_list, last_saved, normVars, envVars>>

\* a first start: no pointer file yet
InitCrash ==
    /\ InitAll
    /\ pointer_file = None

NextCrash ==
    \/ ScopeInit
    \/ IdsStart
    \/ QueryFail
    \/ QueryOk
    \/ PageProcess
    \/ IdsProcess
    \/ FinalSave
    \/ Kill

SpecCrash == InitCrash /\ [][NextCrash]_vars

(***************************************************************************)
(* Properties.                                                             *)
(***************************************************************************)
\* the last entry of a non-empty sequence
Last(seq) == seq[Len(seq)]

\* every attempt of the call failed, and there were max_retries of them
AllAttemptsFailed ==
    /\ Len(outcomes) = MAX_RETRIES
    /\ \A i \in 1..Len(outcomes) : outcomes[i] = "fail"

\* C1: when query_wikidata has returned, the result is None exactly when all
\* max_retries attempts failed; an empty DataFrame is returned only after an
\* attempt that succeeded with zero bindings, and such an attempt is never
\* reported as None.
C1_FailedIffAllAttemptsFail ==
    pc = "page_process" =>
        /\ batch_results = None <=> AllAttemptsFailed
        /\ (batch_results # None /\ IsEmptyDf(batch_results[1])) =>
              /\ Last(outcomes) = "ok"
              /\ Last(fetch_log).results = <<>>
        /\ (Last(outcomes) = "ok" /\ Last(fetch_log).results = <<>>) =>
              batch_results = Some(EmptyDf)

\* C1 witness: a run of missing.py in which one call has exhausted its retries
\* and a later call has just returned an empty batch
C1_Witness ==
    /\ pc = "page_process"
    /\ batch_results = Some(EmptyDf)
    /\ \E i \in 1..Len(fetch_log) : fetch_log[i].kind = "failed"

\* C2: a success is the last request of its call; it comes after at most
\* max_retries - 1 failures; the value returned is the DataFrame of that
\* attempt's bindings, not None, and the number of requests is the number of
\* the successful attempt.
C2_SuccessOnAttemptK ==
    /\ Len(outcomes) <= MAX_RETRIES
    /\ \A i \in 1..Len(outcomes) :
          outcomes[i] = "ok" => i = Len(outcomes) /\ pc # "page_fetch"
    /\ (pc = "page_process" /\ outcomes # <<>> /\ Last(outcomes) = "ok") =>
          LET results == Last(fetch_log).results
          IN /\ Len(outcomes) = attempt + 1
             /\ batch_results # None
             /\ Len(batch_results[1].rows) = Len(results)
             /\ \A i \in 1..Len(results) : \A c \in ColNames :
                   results[i][c].tag # "missing" =>
                       batch_results[1].rows[i][c] = results[i][c]

\* C2 witness: every attempt but the last one allowed has failed, the last
\* one has succeeded with rows
C2_Witness ==
    /\ pc = "page_process"
    /\ Len(outcomes) = MAX_RETRIES
    /\ Last(outcomes) = "ok"
    /\ batch_results # None
    /\ batch_results[1].rows # <<>>

\* C3: in fetch_data a failed fetch is the last fetch of the run (nothing is
\* fetched after it, for this scope or a later one), the run is about to stop
\* or has stopped, and pointer.txt holds what it held when the fetch began.
C3_ExhaustedFetchStopsRun ==
    \A i \in 1..Len(fetch_log) :
        fetch_log[i].kind = "failed" =>
            /\ i = Len(fetch_log)
            /\ pc \in {"page_process", "aborted"}
            /\ scope = fetch_log[i].key
            /\ pointer_file = fetch_log[i].ptr

\* C3 witness: the run has aborted after earlier batches moved the checkpoint,
\* with scopes left to visit
C3_Witness ==
    /\ pc = "aborted"
    /\ Len(fetch_log) > 1
    /\ pointer_file # None
    /\ scope < NumScopes


\* C4: a load returns exactly the argument of the most recent save_pointer
\* call, and None when nothing has been saved.
C4_LoadReturnsLastSave ==
    pc = "store_loaded" => loaded = last_saved

\* what the code does instead: the text of the most recent save without its
\* leading and trailing whitespace
StoreLoadsStrippedSave ==
    pc = "store_loaded" =>
        IF last_saved = None THEN loaded = None
        ELSE loaded = Some(Strip(last_saved[1]))

\* the IDs for which query_wikidata has been called, in call order
FetchedIds == [i \in 1..Len(fetch_log) |-> fetch_log[i].key]

\* a pointer was loaded at start and is not an ID of the list
PointerNotInList ==
    /\ pc # "ids_start"
    /\ ~Falsy(loaded)
    /\ ~Contains(ReadIds(id_list), loaded[1])

IsPrefix(a, b) == Len(a) <= Len(b) /\ a = SubSeq(b, 1, Len(a))

\* C5: with a persisted pointer that is not in the ID list, fetch_data_for_ids
\* fetches the IDs of the full list in list order, one call per ID; the run
\* is never stuck before its end, and at its end every ID has been fetched.
C5_UnknownPointerProcessesFullList ==
    PointerNotInList =>
        /\ wikidata_ids = ReadIds(id_list)
        /\ IsPrefix(FetchedIds, ReadIds(id_list))
        /\ pc \in {"page_fetch", "page_process", "final_save", "done"}
        /\ pc # "done" => ENABLED NextIds
        /\ pc \in {"final_save", "done"} => FetchedIds = ReadIds(id_list)

\* C5 witness: a finished run over a list of several IDs, started with a
\* pointer that names none of them
C5_Witness ==
    /\ PointerNotInList
    /\ pc = "done"
    /\ Len(id_list) > 1
    /\ Len(fetch_log) = Len(id_list)

\* C6: a second pass of process_results gives the first pass's result.
C6_SecondPassIsNoOp ==
    pc = "norm_twice" => twice_df = once_df

\* a batch none of whose envelopes holds a mapping under "value"
NoNestedEnvelope(df) ==
    \A i \in 1..Len(df.rows) : \A c \in df.cols :
        LET x == df.rows[i][c]
        IN (x.tag = "dict" /\ x.val # <<>>) => x.val[1].tag # "dict"

\* what the code does: the second pass changes nothing when no envelope of
\* the raw batch holds a mapping under "value"
SecondPassIsNoOpOnFlatEnvelopes ==
    (pc = "norm_twice" /\ NoNestedEnvelope(raw_df)) => twice_df = once_df

RECURSIVE Flatten(_)
Flatten(seqs) == IF seqs = <<>> THEN <<>> ELSE Head(seqs) \o Flatten(Tail(seqs))

\* the rows written to a snapshot or still in the buffer
StoredRows == Flatten(snapshots) \o Concat(all_results)

\* the number of rows returned by the calls before call i
RECURSIVE RowsBefore(_)
RowsBefore(i) ==
    IF i <= 1 THEN 0
    ELSE RowsBefore(i - 1) + Len(fetch_log[i - 1].results)

\* the fields of a raw row, each without its envelope
Flat(b) == [c \in ColNames |-> b[c].val[1]]

\* call i has returned and the loop body has run on its result
Consumed(i) == i < Len(fetch_log) \/ (i = Len(fetch_log) /\ pc # "page_process")

\* C8: in fetch_data a batch of 1 .. BATCH_SIZE - 1 rows is the last fetch of
\* its scope: every later fetch is for a later scope.  Once the loop body has
\* run on it the loop is past that scope, the rows of the batch, normalized
\* and in order, are stored (in the buffer or in the snapshot of the flush),
\* and until the next batch pointer.txt holds the cursor of its last row.
C8_ShortBatchEndsScope ==
    \A i \in 1..Len(fetch_log) :
        fetch_log[i].kind = "short" =>
            LET results == fetch_log[i].results
                n == Len(results)
            IN /\ \A j \in (i + 1)..Len(fetch_log) :
                     fetch_log[j].key > fetch_log[i].key
               /\ Consumed(i) =>
                     /\ scope > fetch_log[i].key
                     /\ Len(StoredRows) >= RowsBefore(i) + n
                     /\ \A k \in 1..n :
                           StoredRows[RowsBefore(i) + k] = Flat(results[k])
               /\ (Consumed(i) /\ i = Len(fetch_log)) =>
                     /\ batch_count > 0
                     /\ Len(all_results) = batch_count % SAVE_EVERY_N_BATCHES
                     /\ pointer_file =
                           Some(Flat(results[n])["birthdate"].str \o <<"|">>
                                \o Flat(results[n])["person"].str)

\* C8 witness: a short batch was processed and the next fetch, in the next
\* scope, has returned
C8_Witness ==
    /\ pc = "page_process"
    /\ Len(fetch_log) >= 2
    /\ fetch_log[Len(fetch_log) - 1].kind = "short"
    /\ Last(fetch_log).key = fetch_log[Len(fetch_log) - 1].key + 1
    /\ Last(fetch_log).kind # "failed"

\* query_wikidata has returned an empty batch to fetch_data
EmptyPending ==
    /\ pc = "page_process"
    /\ script # "missing"
    /\ batch_results # None
    /\ IsEmptyDf(batch_results[1])

\* C9: the step of fetch_data that handles an empty batch leaves pointer.txt,
\* the in-memory cursor, the buffer, the snapshots and the batch counter as
\* they are and moves to the next scope (or to the end of the loop); a fetch
\* that follows an empty batch is for a later scope.
C9_EmptyBatchChangesNothing ==
    /\ [](\A i \in 1..Len(fetch_log) :
            fetch_log[i].kind = "empty" =>
                \A j \in (i + 1)..Len(fetch_log) :
                    fetch_log[j].key > fetch_log[i].key)
    /\ [][EmptyPending =>
            /\ pointer_file' = pointer_file
            /\ last_birthdate' = last_birthdate
            /\ last_person' = last_person
            /\ all_results' = all_results
            /\ batch_count' = batch_count
            /\ snapshots' = snapshots
            /\ scope' = scope + 1
            /\ pc' \in {"scope_init", "final_save"}]_vars

\* C9 witness: an empty batch arrives when a checkpoint is on disk and a batch
\* is in the buffer
C9_Witness ==
    /\ EmptyPending
    /\ pointer_file # None
    /\ all_results # <<>>
    /\ Truthy(last_birthdate)

\* the first page of scope s, and the page that follows it
FirstPage(s) == Page(s, PyNone, PyNone)

SecondPage(s) ==
    LET last == Flat(Last(FirstPage(s)))
    IN Page(s, last["birthdate"], last["person"])

\* the scenario of C10: scope 2 returns one full page and then an empty page,
\* every other scope returns nothing, and the run began without pointer.txt
ScenarioC10 ==
    /\ script # "missing"
    /\ \A s \in 1..NumScopes : s # 2 => db[s] = <<>>
    /\ Len(FirstPage(2)) = BATCH_SIZE
    /\ SecondPage(2) = <<>>
    /\ fetch_log # <<>>
    /\ fetch_log[1].ptr = None

\* C10: in that scenario a run that reaches its end has written exactly the
\* rows of scope 2's page, normalized and in order, to the final dataset, has
\* written no snapshot, and pointer.txt holds "birthdate|person" of the last
\* row of that page.
C10_EndToEnd ==
    (ScenarioC10 /\ pc = "done") =>
        LET page == FirstPage(2)
            last == Flat(Last(page))
        IN /\ final_csv = Some([k \in 1..Len(page) |-> Flat(page[k])])
           /\ snapshots = <<>>
           /\ pointer_file =
                 Some(last["birthdate"].str \o <<"|">> \o last["person"].str)

\* C10 witness: the end of such a run
C10_Witness ==
    /\ ScenarioC10
    /\ pc = "done"
    /\ final_csv # None
    /\ Len(fetch_log) = NumScopes + 1


\* the rows of the persisted outputs: the snapshots and the final dataset
Persisted ==
    Flatten(snapshots) \o (IF final_csv = None THEN <<>> ELSE final_csv[1])

\* the batches of a killed process's buffer with a record in no output
LostBatches ==
    {i \in 1..Len(lost) :
        \E k \in 1..Len(lost[i].rows) : ~Contains(Persisted, lost[i].rows[k])}

\* C11: when a run that was killed between two batches and started again
\* from the checkpoint has ended, the fetched batches with a record in no
\* snapshot and not in the final dataset are at most one.
C11_AtMostOneBatchLost ==
    pc = "done" => Cardinality(LostBatches) <= 1

\* what the code does instead: a kill loses the whole buffer, that is up to
\* SAVE_EVERY_N_BATCHES - 1 batches
LostBelowFlushPeriod ==
    Len(lost) <= (run - 1) * (SAVE_EVERY_N_BATCHES - 1)

\* process_all_birthplaces has returned
LabelsReturned == script = "birthlabel" /\ pc \in {"merge", "done"}

\* results_df has a row for id
HasRow(id) ==
    \E r \in 1..Len(results_df) : results_df[r].birthplace_id = id

\* results_df has a row for id with a null label
HasNullRow(id) ==
    \E r \in 1..Len(results_df) :
        results_df[r].birthplace_id = id /\ results_df[r].label = PyNone

\* the IDs of the batches the loop has finished
DoneIds ==
    SubSeq(ids_to_process, 1,
           IF batch_i < Len(ids_to_process) THEN batch_i
           ELSE Len(ids_to_process))

IsLastSegment(key, s) ==
    /\ ~Contains(key, "/")
    /\ Len(key) <= Len(s)
    /\ SubSeq(s, Len(s) - Len(key) + 1, Len(s)) = key
    /\ Len(key) < Len(s) => s[Len(s) - Len(key)] = "/"

\* the position of a base row in the dataset (rows differ in person)
BasePos(row) == CHOOSE i \in 1..Len(dataset) : dataset[i] = row

\* the label rows of the labels file whose key is the key of base row i
MatchingRows(i) ==
    LET bp == dataset[i]["birthplace"]
    IN {r \in 1..Len(labels_csv[1]) :
           /\ bp.tag = "str"
           /\ IsLastSegment(labels_csv[1][r].birthplace_id, bp.str)}

\* a label of the merged output is the label of a label row (null read as NaN)
SameLabel(a, b) == a = b \/ (~NotNa(a) /\ ~NotNa(b))

\* C13: the merged output holds rows of the dataset only, in the order of the
\* dataset; a base row whose key (the final path segment of birthplace) has
\* label rows appears once per such row, in their order, with that row's
\* label; a base row without a label row for its key (or without a key)
\* appears once with a null label.
C13_MergeIsLeftJoin ==
    (script = "birthlabel" /\ pc = "done" /\ merged_df # None) =>
        LET merged == merged_df[1]
            labels == labels_csv[1]
            RowsOf(i) == {m \in 1..Len(merged) : merged[m].base = dataset[i]}
        IN /\ \A m \in 1..Len(merged) :
                 \E i \in 1..Len(dataset) : merged[m].base = dataset[i]
           /\ \A m1, m2 \in 1..Len(merged) :
                 m1 < m2 => BasePos(merged[m1].base) <= BasePos(merged[m2].base)
           /\ \A i \in 1..Len(dataset) :
                 /\ RowsOf(i) # {}
                 /\ MatchingRows(i) = {} =>
                       /\ Cardinality(RowsOf(i)) = 1
                       /\ \A m \in RowsOf(i) : merged[m].label = PyNaN
                 /\ MatchingRows(i) # {} =>
                       /\ Cardinality(RowsOf(i)) = Cardinality(MatchingRows(i))
                       /\ \A r \in MatchingRows(i) : \E m \in RowsOf(i) :
                             /\ SameLabel(merged[m].label, labels[r].label)
                             /\ Cardinality({m2 \in RowsOf(i) : m2 < m}) =
                                Cardinality({r2 \in MatchingRows(i) : r2 < r})

\* C13 witness: a merge in which one base row has two label rows, a later one
\* has a key without a label row and another has no birthplace
C13_Witness ==
    /\ script = "birthlabel"
    /\ pc = "done"
    /\ merged_df # None
    /\ \E i, j, k \in 1..Len(dataset) :
          /\ i < j
          /\ Cardinality(MatchingRows(i)) = 2
          /\ dataset[j]["birthplace"].tag = "str"
          /\ MatchingRows(j) = {}
          /\ dataset[k]["birthplace"] = PyNaN

\* a <= b for two pointer texts "birthdate|person", in (birthdate, person) order
CursorLeq(a, b) ==
    LET x == Split(a, "|")
        y == Split(b, "|")
    IN \/ StrLess(x[1], y[1])
       \/ x[1] = y[1] /\ (x[2] = y[2] \/ StrLess(x[2], y[2]))

\* pointer.txt after the loop body has run on the result of call i
SavedAfter(i) ==
    IF i < Len(fetch_log) THEN fetch_log[i + 1].ptr ELSE pointer_file

\* call i returned rows
HasRows(i) == fetch_log[i].kind \in {"short", "full"}

\* C14: in fetch_data each batch with rows persists the cursor of its last
\* row, and of two such batches of one scope the later one persists a cursor
\* that is not below the earlier one's in the (birthdate, person) order.
C14_CursorsNonDecreasing ==
    \A i, j \in 1..Len(fetch_log) :
        (/\ i < j
         /\ fetch_log[i].key = fetch_log[j].key
         /\ HasRows(i)
         /\ HasRows(j)
         /\ Consumed(j)) =>
            /\ SavedAfter(i) # None
            /\ SavedAfter(j) # None
            /\ Len(Split(SavedAfter(i)[1], "|")) = 2
            /\ Split(SavedAfter(j)[1], "|") =
                  <<Flat(Last(fetch_log[j].results))["birthdate"].str,
                    Flat(Last(fetch_log[j].results))["person"].str>>
            /\ CursorLeq(SavedAfter(i)[1], SavedAfter(j)[1])

\* C14 witness: two batches with rows in one scope, the second one processed,
\* and the cursor has moved
C14_Witness ==
    \E i, j \in 1..Len(fetch_log) :
        /\ i < j
        /\ fetch_log[i].key = fetch_log[j].key
        /\ HasRows(i)
        /\ HasRows(j)
        /\ Consumed(j)
        /\ SavedAfter(i) # SavedAfter(j)

\* call i returned rows and the last one lacks a cursor field, or holds a
\* null in it once normalized
BadLast(i) ==
    /\ HasRows(i)
    /\ \E f \in {"birthdate", "person"} :
          LET x == Last(fetch_log[i].results)[f]
          IN x.tag = "missing" \/ ~NotNa(Unwrap(x))

\* C15: in fetch_data a batch whose last row has a missing or null cursor
\* field is the last fetch of its scope, and the loop body leaves pointer.txt
\* as it was.
C15_BadCursorEndsScope ==
    \A i \in 1..Len(fetch_log) :
        BadLast(i) =>
            /\ \A j \in (i + 1)..Len(fetch_log) :
                  fetch_log[j].key > fetch_log[i].key
            /\ Consumed(i) => SavedAfter(i) = fetch_log[i].ptr

\* what the code does on a page that is not full: the scope ends
BadCursorOnShortPageEndsScope ==
    \A i \in 1..Len(fetch_log) :
        (BadLast(i) /\ fetch_log[i].kind = "short") =>
            \A j \in (i + 1)..Len(fetch_log) :
                fetch_log[j].key > fetch_log[i].key

\* the same page of a scope has been fetched twice in a row
SamePageAgain ==
    \E i \in 1..(Len(fetch_log) - 1) :
        /\ BadLast(i)
        /\ fetch_log[i + 1].key = fetch_log[i].key
        /\ fetch_log[i + 1].results = fetch_log[i].results

\* the rows of the batch query_wikidata has just returned, normalized
PendingRows ==
    [k \in 1..Len(Last(fetch_log).results) |-> Flat(Last(fetch_log).results[k])]

\* query_wikidata has returned a batch with rows to the loop
RowsPending ==
    /\ pc = "page_process"
    /\ batch_results # None
    /\ ~IsEmptyDf(batch_results[1])

\* the calls that returned rows and whose batch the loop has processed
CountedCalls == {i \in 1..Len(fetch_log) : HasRows(i) /\ Consumed(i)}

\* C16: in fetch_data and fetch_data_for_ids the buffer holds batch_count mod
\* SAVE_EVERY_N_BATCHES batches, fewer than SAVE_EVERY_N_BATCHES, one
\* snapshot has been written per SAVE_EVERY_N_BATCHES batches, and
\* batch_count is the number of batches processed; the step that processes
\* a batch adds one to batch_count and either appends the batch to the
\* buffer or, when the count reaches a multiple of SAVE_EVERY_N_BATCHES,
\* writes the buffer with the batch to a new snapshot and empties the buffer.
C16_BufferBound ==
    /\ [](/\ Len(all_results) = batch_count % SAVE_EVERY_N_BATCHES
          /\ Len(all_results) < SAVE_EVERY_N_BATCHES
          /\ Len(snapshots) = batch_count \div SAVE_EVERY_N_BATCHES
          /\ batch_count = Cardinality(CountedCalls))
    /\ [][RowsPending =>
            /\ batch_count' = batch_count + 1
            /\ IF batch_count' % SAVE_EVERY_N_BATCHES = 0
               THEN /\ all_results' = <<>>
                    /\ snapshots' =
                          Append(snapshots, Concat(all_results) \o PendingRows)
               ELSE /\ Len(all_results') = Len(all_results) + 1
                    /\ Last(all_results').rows = PendingRows
                    /\ SubSeq(all_results', 1, Len(all_results)) = all_results
                    /\ snapshots' = snapshots]_vars

\* C16 witness: a batch is in the buffer after a flush has emptied it
C16_Witness ==
    /\ batch_count > SAVE_EVERY_N_BATCHES
    /\ all_results # <<>>
    /\ snapshots # <<>>

\* the rows returned by the first i calls of query_wikidata, normalized, in
\* fetch order
RECURSIVE FetchedRows(_)
FetchedRows(i) ==
    IF i = 0 THEN <<>>
    ELSE FetchedRows(i - 1) \o
         [k \in 1..Len(fetch_log[i].results) |-> Flat(fetch_log[i].results[k])]

\* C17: when fetch_data or fetch_data_for_ids has reached its end, the
\* snapshots in the order written, followed by the final dataset, hold the
\* rows of every batch fetched in the run, once each and in fetch order; the
\* final dataset holds the batches that were in the buffer, in order; no
\* final dataset is written when the buffer is empty.
C17_EveryBatchPersistedOnce ==
    (script \in {"wiki_birth", "wiki_german_de", "missing"} /\ pc = "done") =>
        /\ Persisted = FetchedRows(Len(fetch_log))
        /\ all_results # <<>> => final_csv = Some(Concat(all_results))
        /\ all_results = <<>> => final_csv = None

\* C17 witness: the end of a run that wrote a snapshot and then a final
\* dataset
C17_Witness ==
    /\ script \in {"wiki_birth", "wiki_german_de", "missing"}
    /\ pc = "done"
    /\ snapshots # <<>>
    /\ final_csv # None

\* the scope start reads the cursor from pointer.txt: the two fields of the
\* stripped text, or no cursor without a file
CursorLoaded ==
    /\ pointer_file = None =>
          /\ loaded' = None
          /\ last_birthdate' = PyNone
          /\ last_person' = PyNone
    /\ pointer_file # None =>
          /\ loaded' = Some(Strip(pointer_file[1]))
          /\ <<last_birthdate'.str, last_person'.str>> =
                Split(Strip(pointer_file[1]), "|")

\* C18 as claimed: every scope start of fetch_data loads the cursor and sets
\* the batch counter to zero.
C18_CounterResetPerScope ==
    [][pc = "scope_init" => (CursorLoaded /\ batch_count' = 0)]_vars

\* C18 as amended: every scope start of fetch_data loads the cursor and
\* leaves the batch counter and the buffer as they are, so that the count
\* that triggers the flush is the number of batches processed since the
\* start of the run.
C18_CounterRunsAcrossScopes ==
    /\ [](batch_count = Cardinality(CountedCalls))
    /\ [][pc = "scope_init" =>
            /\ CursorLoaded
            /\ batch_count' = batch_count
            /\ all_results' = all_results]_vars

\* C18 witness: a scope after the first has just started, with a cursor on
\* disk and batches counted in earlier scopes
C18_Witness ==
    /\ pc = "page_fetch"
    /\ outcomes = <<>>
    /\ scope > 1
    /\ batch_count > 0
    /\ loaded # None
    /\ Last(fetch_log).key < scope

\* the event before the i-th of the current fetch is the courtesy sleep
DelayedRequest(i) ==
    /\ i > 1
    /\ events[i - 1] = Delay(REQUEST_DELAY)

\* C19: every request of a fetcher, first attempt or retry, comes right after
\* a fixed polite delay, which is no backoff sleep.
C19_DelayBeforeEveryRequest ==
    \A i \in 1..Len(events) : events[i] = Request => DelayedRequest(i)

\* in birthlabel.py (get_batch_labels, get_single_label) it does
LabelRequestsDelayed ==
    script = "birthlabel" =>
        \A i \in 1..Len(events) : events[i] = Request => DelayedRequest(i)

\* a retry of get_single_label: backoff, courtesy sleep, request
RetryAfterBothSleeps ==
    /\ script = "birthlabel"
    /\ Len(events) >= 5
    /\ events[3].ev = "backoff"
    /\ events[4].ev = "delay"
    /\ events[5] = Request

\* a fetcher call has returned: the attempts and sleeps of the call are final
CallReturned == pc \in {"page_process", "lbl_ret", "lbl_raised"}

\* the sleep the claim gives for failed attempt number a, counted from 1
ClaimedSleep(a) ==
    IF script = "missing" THEN RETRY_DELAY * Pow2(a - 1)
    ELSE IF script = "birthlabel" THEN Pow2(a - 1)
    ELSE 10 * a

\* the backoff sleeps of the call have the claimed values
ClaimedValues == \A a \in 1..Len(sleeps) : sleeps[a] = ClaimedSleep(a)

\* C20: a fetch of n attempts performs exactly n - 1 backoff sleeps, none
\* after its final attempt, and the sleep after failed attempt a is 10 * a
\* (wiki_birth.py, wiki_german_de.py), RETRY_DELAY * 2^(a-1) (missing.py) or
\* 2^(a-1) (get_single_label).
C20_BackoffOnlyBeforeRetry ==
    CallReturned =>
        /\ Len(sleeps) = Len(outcomes) - 1
        /\ ClaimedValues

\* the values are the claimed ones, and there is one sleep per failed attempt
\* of query_wikidata
SleepPerFailedAttempt ==
    /\ ClaimedValues
    /\ script # "birthlabel" =>
          Len(sleeps) = Cardinality({i \in 1..Len(outcomes) :
                                        outcomes[i] = "fail"})

\* get_single_label sleeps only before a retry
LabelBackoffOnlyBeforeRetry ==
    (script = "birthlabel" /\ pc \in {"lbl_ret", "lbl_raised"}) =>
        /\ Len(sleeps) = Len(outcomes) - 1
        /\ ClaimedValues

\* get_single_label has given up after its last attempt
LabelExhausted ==
    /\ pc = "lbl_ret"
    /\ Len(outcomes) = LABEL_MAX_RETRIES
    /\ Last(outcomes) = "fail"

\* C21: load_pointer never raises: with the checkpoint file missing or
\* unreadable it returns None, in missing.py, wiki_birth.py and
\* wiki_german_de.py alike, and the run goes on from the beginning.
C21_LoadPointerNeverRaises ==
    /\ "pointer_read" \in io_errors => (pc # "crashed" /\ loaded = None)
    /\ (pc = "page_fetch" /\ fetch_log = <<>> /\ pointer_file = None) =>
          loaded = None

\* in missing.py it does not raise: the whole list is processed
UnreadableIdPointerMeansFullList ==
    (script = "missing" /\ "pointer_read" \in io_errors) =>
        /\ pc # "crashed" \/ "pointer_write" \in io_errors
        /\ loaded = None
        /\ wikidata_ids = ReadIds(id_list)

\* missing.py has gone through its list after a read of the pointer raised
UnreadableIdPointerRunDone ==
    /\ script = "missing"
    /\ io_errors = {"pointer_read"}
    /\ pc = "done"
    /\ Len(fetch_log) = Len(ReadIds(id_list))
    /\ Len(fetch_log) > 1

\* a write of the checkpoint or of a snapshot raises in this step
WriteFails ==
    /\ io_errors' # io_errors
    /\ (io_errors' \ io_errors) \subseteq {"pointer_write", "snapshot_write"}

\* C22: a failure to write the checkpoint or an intermediate snapshot does
\* not stop the run: the loop goes on with the following pages, IDs and
\* scopes, and the checkpoint written before stays in place.
C22_PersistenceFailureKeepsRunning ==
    [][WriteFails =>
          /\ pc' \in {"page_fetch", "scope_init", "final_save"}
          /\ "pointer_write" \in io_errors' => pointer_file' = pointer_file]_vars

\* the one case that is caught and goes on: the snapshot of missing.py
CaughtSnapshotFailureDropsBuffer ==
    [][(WriteFails /\ script = "missing" /\ "snapshot_write" \in io_errors')
          => /\ pc' \in {"page_fetch", "final_save"}
             /\ all_results' = <<>>
             /\ snapshots' = snapshots]_vars

\* the input file lacks the column the script needs
SchemaError ==
    \/ script = "missing" /\ "wikidata_id" \notin input_cols
    \/ script = "translation" /\ "occupation" \notin input_cols

\* no request has been made and no file has been written
NothingDone ==
    /\ fetch_log = <<>>
    /\ outcomes = <<>>
    /\ events = <<>>
    /\ tr_calls = <<>>
    /\ last_saved = None
    /\ snapshots = <<>>
    /\ final_csv = None
    /\ tr_output = None

\* C23: when the input lacks the wikidata_id column (missing.py) or the
\* occupation column (translation.py), the run ends at its start: no fetch or
\* translation request is made, and neither the checkpoint nor a snapshot nor
\* the output file is written.
C23_SchemaErrorLeavesNoOutput ==
    SchemaError =>
        /\ NothingDone
        /\ pc \in {"ids_start", "tr_start", "done", "crashed"}
        /\ pc = "done" => script = "missing"
        /\ pc = "crashed" => script = "translation"

\* C23 witness: missing.py has returned over a file that has IDs under
\* another header
C23_Witness ==
    /\ script = "missing"
    /\ input_cols = {"id"}
    /\ Len(id_list) > 1
    /\ pc = "done"

\* translation.py has raised KeyError over a file with texts
TranslationAborted ==
    /\ script = "translation"
    /\ "occupation" \notin input_cols
    /\ Len(occupations) > 1
    /\ pc = "crashed"

\* the calls of query_wikidata that returned a batch with rows
NonEmptyCalls == SelectSeq(fetch_log, LAMBDA e : e.results # <<>>)

\* C24: in fetch_data_for_ids an ID whose fetch exhausted its retries is
\* skipped: that ID changes neither the checkpoint nor the buffer nor the
\* batch counter, and the loop goes on with the next ID; the checkpoint is
\* only ever the ID of a fetch that returned a batch with rows.
C24_ExhaustedIdIsSkipped ==
    /\ [][(script = "missing" /\ pc = "page_process" /\ batch_results = None)
             => /\ pointer_file' = pointer_file
                /\ all_results' = all_results
                /\ batch_count' = batch_count
                /\ snapshots' = snapshots
                /\ idx' = idx + 1
                /\ pc' = IF idx < Len(wikidata_ids) THEN "page_fetch"
                         ELSE "final_save"]_vars
    /\ []((script = "missing" /\ pc # "page_process") =>
             /\ NonEmptyCalls = <<>> => last_saved = None
             /\ NonEmptyCalls # <<>> =>
                   /\ last_saved = Some(Last(NonEmptyCalls).key)
                   /\ pointer_file = last_saved)

\* C24 witness: an ID was fetched and saved, the fetch of the next ID failed,
\* and the ID after it has been fetched, the checkpoint still being the first
C24_Witness ==
    /\ script = "missing"
    /\ Len(fetch_log) = 3
    /\ fetch_log[1].results # <<>>
    /\ fetch_log[2].kind = "failed"
    /\ fetch_log[3].kind = "empty"
    /\ pc = "final_save"
    /\ pointer_file = Some(fetch_log[1].key)
    /\ Len(all_results) = 1

\* the checkpoint file holds the line written for the cursor in memory
CursorPersisted ==
    /\ last_saved # None
    /\ pointer_file = last_saved
    /\ last_saved = Some(EncodePointer(last_birthdate, last_person))

\* C25: for every cursor (birthdate, person) that fetch_data has persisted
\* as the line birthdate|person, the next scope start loads the line and
\* splits it into exactly the same two fields, without failing, also when a
\* field holds the delimiter.
C25_CursorRoundTrip ==
    [][(pc = "scope_init" /\ CursorPersisted) =>
          /\ pc' = "page_fetch"
          /\ last_birthdate' = last_birthdate
          /\ last_person' = last_person]_vars

\* a field with the delimiter: the split has three pieces and the unpacking
\* raises
DelimiterInFieldCrashes ==
    [][(pc = "scope_init" /\ CursorPersisted
          /\ Len(Split(Strip(pointer_file[1]), "|")) # 2)
          => pc' = "crashed"]_vars

\* a scope start over a persisted cursor whose person holds the delimiter
DelimiterInPersisted ==
    /\ pc = "crashed"
    /\ CursorPersisted
    /\ Contains(last_person.str, "|")

\* the positions of x in the list
Positions(ids, x) == {i \in 1..Len(ids) : ids[i] = x}

\* the least of a non-empty set of positions
Least(S) == CHOOSE i \in S : \A j \in S : i <= j

\* fetch_data_for_ids has started with a pointer that occurs in the ID list
ResumedInList ==
    /\ script = "missing"
    /\ pc # "ids_start"
    /\ loaded # None
    /\ Positions(ReadIds(id_list), loaded[1]) # {}

\* C27: started with a persisted pointer that occurs in the ID list,
\* fetch_data_for_ids processes exactly the IDs after the pointer's first
\* occurrence, in list order, one fetch each; no entry of the list at or
\* before that position is fetched in the resumed run.
C27_ResumeAfterFirstOccurrence ==
    ResumedInList =>
        LET ids == ReadIds(id_list)
            p == Least(Positions(ids, loaded[1]))
        IN /\ wikidata_ids = SubSeq(ids, p + 1, Len(ids))
           /\ Len(fetch_log) <= Len(ids) - p
           /\ \A k \in 1..Len(fetch_log) : fetch_log[k].key = ids[p + k]
           /\ pc = "done" => Len(fetch_log) = Len(ids) - p

\* C27 witness: a resumed run has ended over a list in which the pointer
\* occurs twice, and has fetched the two IDs after the first occurrence
C27_Witness ==
    /\ ResumedInList
    /\ pc = "done"
    /\ Cardinality(Positions(ReadIds(id_list), loaded[1])) = 2
    /\ Least(Positions(ReadIds(id_list), loaded[1])) = 1
    /\ Len(fetch_log) = 2

\* the records the server has returned in this run
FetchedSet ==
    UNION {{fetch_log[i].results[k] : k \in 1..Len(fetch_log[i].results)} :
              i \in 1..Len(fetch_log)}

\* the records of all scopes
AllRecords == UNION {{db[s][i] : i \in 1..Len(db[s])} : s \in 1..NumScopes}

\* the records whose (birthdate, person) is above the cursor of the line c
AboveCursor(c) ==
    LET parts == Split(c, "|")
    IN {b \in AllRecords : PassesFilter(b, parts[1], parts[2])}

\* fetch_data was started with a cursor in pointer.txt and has gone through
\* all scopes without a failed fetch
ResumedRunDone ==
    /\ script \in {"wiki_birth", "wiki_german_de"}
    /\ pc = "done"
    /\ fetch_log[1].ptr # None

\* C28: after a restart with the persisted cursor C and no failed fetch, the
\* records fetched over all scopes are exactly the records whose cursor is
\* above C: none at or below C is fetched again, none above C is skipped.
C28_ResumeFetchesExactlyAbove ==
    ResumedRunDone => FetchedSet = AboveCursor(fetch_log[1].ptr[1])

\* none at or below C is fetched again
ResumeFetchesOnlyAbove ==
    ResumedRunDone => FetchedSet \subseteq AboveCursor(fetch_log[1].ptr[1])

\* a record above C that is skipped has the (birthdate, person) of a record
\* that was fetched
SkippedShareTheirCursor ==
    ResumedRunDone =>
        \A b \in AboveCursor(fetch_log[1].ptr[1]) \ FetchedSet :
            \E r \in FetchedSet : RowPointer(r) = RowPointer(b)

\* fetch_data has met a fetch that exhausted its retries and has acted on it
ExhaustedHandled ==
    /\ script \in {"wiki_birth", "wiki_german_de"}
    /\ fetch_log # <<>>
    /\ Last(fetch_log).kind = "failed"
    /\ pc # "page_process"

\* the rows of the batches in the buffer
BufferedRows == Concat(all_results)

\* C29: when fetch_data aborts on an exhausted fetch it returns without
\* writing the final dataset and without flushing the buffer: the batches
\* buffered since the last flush, at most SAVE_EVERY_N_BATCHES - 1, are in
\* no output, and the checkpoint is the cursor of the last of their rows.
C29_AbortLeavesBufferUnsaved ==
    ExhaustedHandled =>
        /\ pc = "aborted"
        /\ final_csv = None
        /\ Len(snapshots) = batch_count \div SAVE_EVERY_N_BATCHES
        /\ Len(all_results) = batch_count % SAVE_EVERY_N_BATCHES
        /\ Len(all_results) <= SAVE_EVERY_N_BATCHES - 1
        /\ \A k \in 1..Len(BufferedRows) : ~Contains(Persisted, BufferedRows[k])
        /\ all_results # <<>> =>
              pointer_file =
                  Some(EncodePointer(Last(BufferedRows)["birthdate"],
                                     Last(BufferedRows)["person"]))

\* C29 witness: the run has aborted in its second scope with as many
\* batches in the buffer as it can hold and the checkpoint past them
C29_Witness ==
    /\ pc = "aborted"
    /\ scope = 2
    /\ Len(all_results) = SAVE_EVERY_N_BATCHES - 1
    /\ pointer_file # None
    /\ final_csv = None

\* how many records the server holds, over all scopes
NumRecords == Cardinality(AllRecords)

\* the run is over: ALL_DONE, or the exit on an exhausted fetch
Ended == pc \in {"done", "aborted"}

\* C30: every run of fetch_data ends, at ALL_DONE or at the abort exit,
\* after finitely many fetches (every fetch but one per scope returns a
\* record not fetched before); every run of fetch_data_for_ids ends having
\* made at most one fetch per entry of the ID list.
C30_RunsEnd ==
    /\ <>Ended
    /\ [](script \in {"wiki_birth", "wiki_german_de"} =>
             /\ Len(fetch_log) <= NumRecords + NumScopes
             /\ Cardinality(FetchedSet) >= Len(fetch_log) - scope)
    /\ [](script = "missing" =>
             /\ Len(fetch_log) <= Len(ReadIds(id_list))
             /\ \A k \in 1..Len(fetch_log) : fetch_log[k].key = wikidata_ids[k])

\* C30 witness: fetch_data has ended after several pages in each of two
\* scopes
C30_Witness ==
    /\ script \in {"wiki_birth", "wiki_german_de"}
    /\ pc = "done"
    /\ Len(fetch_log) >= 6
    /\ \E i \in 1..Len(fetch_log) : fetch_log[i].kind = "full"

\* one process runs fetch_data in the directory
Solo == other = None

\* the cursor the last load_pointer call returned is the cursor of a record
\* this process has fetched
OwnCursor ==
    loaded # None => \E r \in FetchedSet : loaded[1] = RowPointer(r)

\* the cursors (birthdate, person) of records this process has not fetched
MissedCursors ==
    {RowPointer(r) : r \in AllRecords} \ {RowPointer(r) : r \in FetchedSet}

\* this process has gone through all scopes without a failed fetch
CleanDone ==
    /\ pc = "done"
    /\ \A i \in 1..Len(fetch_log) : fetch_log[i].kind # "failed"

\* C26: a process that runs fetch_data alone loads at every scope start a
\* cursor it has saved itself, and when it ends without a failed fetch it
\* has fetched every cursor of the data; only next to a second process on the
\* same pointer.txt can it load a cursor the other one saved and end without
\* the records below it.
C26_SingleRunnerFetchesAll ==
    Solo => /\ OwnCursor
            /\ CleanDone => MissedCursors = {}

\* C26 witness: one of two processes has ended without a failed fetch; the
\* cursor it loaded at its last scope start was saved by the other process,
\* and it has fetched none of the records at or below that cursor
C26_Witness ==
    /\ ~Solo
    /\ CleanDone
    /\ ~OwnCursor
    /\ MissedCursors # {}
    /\ \A r \in AllRecords \ AboveCursor(loaded[1]) : r \notin FetchedSet

\* a solo run that ends with all cursors fetched after two pages in a scope
SoloRunComplete ==
    /\ Solo
    /\ CleanDone
    /\ \E i \in 1..(Len(fetch_log) - 1) :
          /\ fetch_log[i].kind = "full"
          /\ fetch_log[i + 1].kind = "short"
          /\ fetch_log[i + 1].key = fetch_log[i].key

=============================================================================
